---- MODULE Spec2Model ----
(***************************************************************************)
(* Events API: registration and capacity accounting over a key-value      *)
(* store whose only concurrency primitive is a single-item conditional    *)
(* write.  The handler (src/handlers/events.ts, registerEventHandler) and *)
(* the service (src/services/dynamodb.ts) are modelled store operation by *)
(* store operation: every await on the store is one step of a request.     *)
(***************************************************************************)
EXTENDS Integers, Sequences, FiniteSets, TLC

(* ------------------------------ bounds -------------------------------- *)

\* Execution units that can be in flight at the same time.
NReq == 2

\* capacity.max of the seeded event; it is seeded with any registered count
\* up to it.  The code compares registered with max only, so the free room
\* is all that matters.
MaxCap == 2

\* Registration ids stand for the sort keys REGISTRATION#reg_<ms>_<rand>;
\* their order is the sort-key order of the records of one event.
MaxRegId == 3

\* Event partitions of the catalog the read side is checked on.
MaxEvents == 3

Reqs == 1..NReq
RegIds == 1..MaxRegId

(* ------------------------- JSON values of a body ---------------------- *)

\* A number is kept in halves (h = 2 * value) so that 1.5 is representable.
Undef == [t |-> "undefined", s |-> <<>>, h |-> 0]
Str(s) == [t |-> "string", s |-> s, h |-> 0]
Num(h) == [t |-> "number", s |-> <<>>, h |-> h]

\* JavaScript truthiness of a value, as used by `!attendeeEmail`.
Truthy(v) ==
  CASE v.t = "undefined" -> FALSE
    [] v.t = "string" -> Len(v.s) > 0
    [] v.t = "number" -> v.h # 0
    [] v.t = "NaN" -> FALSE

Whitespace == {" "}

\* /^[^\s@]+@[^\s@]+\.[^\s@]+$/ : one "@", not first; later a "." that is
\* neither right after the "@" nor last; no whitespace anywhere.
validateEmail(email) ==
  \E i \in 1..Len(email), j \in 1..Len(email) :
    /\ email[i] = "@"
    /\ email[j] = "."
    /\ i > 1
    /\ j > i + 1
    /\ j < Len(email)
    /\ \A k \in 1..Len(email) :
         /\ email[k] \notin Whitespace
         /\ (k # i => email[k] # "@")

RECURSIVE TrimStart(_)
TrimStart(s) ==
  IF s = <<>> THEN s
  ELSE IF Head(s) \in Whitespace THEN TrimStart(Tail(s)) ELSE s

RECURSIVE TrimEnd(_)
TrimEnd(s) ==
  IF s = <<>> THEN s
  ELSE IF s[Len(s)] \in Whitespace THEN TrimEnd(SubSeq(s, 1, Len(s) - 1)) ELSE s

\* String.prototype.trim
trim(s) == TrimEnd(TrimStart(s))

\* Number.isInteger on a number kept in halves.
IsInteger(v) == v.t = "number" /\ v.h % 2 = 0

\* The destructuring with a default of a pair of places.
DefaultGroupSizeOfTwo(v) == IF v.t = "undefined" THEN Num(4) ELSE v

\* `groupSize = 1` in the destructuring: the default replaces undefined only.
DefaultGroupSize(v) == IF v.t = "undefined" THEN Num(2) ELSE v

\* The integer value of a validated group size.
GroupSizeOf(body) == DefaultGroupSize(body.groupSize).h \div 2

(* ------------------------------ inputs -------------------------------- *)

EmailA == <<"a", "@", "b", ".", "c">>
EmailUpperA == <<"A", "@", "b", ".", "c">>
EmailD == <<"d", "@", "b", ".", "c">>

EmailList == <<EmailA, EmailUpperA, EmailD>>
ValidEmails == { EmailList[i] : i \in 1..Len(EmailList) }

BadEmails ==
  { <<"a", "@", "b", "c">>,
    <<"a", " ", "@", "b", ".", "c">>,
    <<"@", "b", ".", "c">>,
    <<"a", "@", "b", ".">> }

NameN == <<"n">>

ObjectBody(email, name, groupSize) ==
  [kind |-> "object", attendeeEmail |-> email, attendeeName |-> name,
   groupSize |-> groupSize]

\* event.body that JSON.parse rejects, and the JSON text `null`.
MalformedBody == [kind |-> "malformed", attendeeEmail |-> Undef,
                  attendeeName |-> Undef, groupSize |-> Undef]
NullBody == [kind |-> "null", attendeeEmail |-> Undef,
             attendeeName |-> Undef, groupSize |-> Undef]

\* Bodies of the concurrent specification: well-formed registrations.
ValidBodies ==
  { ObjectBody(Str(e), Str(NameN), Num(2 * g)) : e \in ValidEmails, g \in {1, 2} }

\* Bodies of the sequential specification: every shape the handler tells apart.
AllBodies ==
  {MalformedBody, NullBody} \cup
  { ObjectBody(e, n, g) :
      e \in {Undef, Str(<<>>)} \cup {Str(x) : x \in ValidEmails \cup BadEmails},
      n \in {Undef, Str(<<>>), Str(<<" ">>), Str(NameN), Num(2)},
      g \in {Undef, Num(0), Num(2), Num(3), Num(4), Num(-2), Str(<<"2">>)} }

\* "1" is the seeded event; "9" is an id no record exists for; "" is a
\* missing path id.
EventIds == {"1"}
AllPathIds == EventIds \cup {"9", ""}

Null == [max |-> -1, registered |-> -1]

(* --------------------------- catalog inputs --------------------------- *)

\* A word no letter of which is examined is kept as a one-letter sequence.
Technology == <<"technology">>
Business == <<"business">>
Available == <<"available">>
Full == <<"full">>

\* Seeded events: each pair of category, status, "matches the search text
\* a" and "has a registration record" occurs in one of them.
\* `free` is capacity.max - capacity.registered.
EventShapes ==
  { [category |-> Technology, title |-> <<"A", "b">>, description |-> <<"x">>,
     free |-> 1, records |-> 0],
    [category |-> Technology, title |-> <<"b">>, description |-> <<"x">>,
     free |-> 0, records |-> 1],
    [category |-> Business, title |-> <<"b">>, description |-> <<"c", "a">>,
     free |-> 0, records |-> 0],
    [category |-> Business, title |-> <<"b">>, description |-> <<"x">>,
     free |-> 1, records |-> 1] }

\* The attributes of the one event of the registration specifications.
PlainShape ==
  [category |-> Technology, title |-> <<"A", "b">>, description |-> <<"x">>]

\* The store's scan order of the partitions: stable for a fixed dataset and
\* decided by the store; the ids are named after their place in it.
PartitionOrder == [i \in 1..MaxEvents |-> ToString(i)]

\* Query string of GET /events: texts of the limit parameter.
LimitTexts ==
  { <<>>, <<"0">>, <<"1">>, <<"2">>, <<"-", "1">>, <<"1", "0", "0">>,
    <<"1", "0", "1">>, <<"x">>, <<"2", "x">>, <<"1", ".", "5">> }

\* A lastKey that is no token this program produced.
GarbageToken == <<"?">>

ListQuery(category, search, status, limit, lastKey) ==
  [category |-> category, search |-> search, status |-> status,
   limit |-> limit, lastKey |-> lastKey]

AllQueries ==
  { ListQuery(c, s, st, l, k) :
      c \in {Undef, Str(Technology)},
      s \in {Undef, Str(<<"A">>)},
      st \in {Undef, Str(Available), Str(Full), Str(<<"sold">>)},
      l \in {Undef} \cup { Str(x) : x \in LimitTexts },
      k \in {Undef, Str(GarbageToken)} }

NoQuery == ListQuery(Undef, Undef, Undef, Undef, Undef)
NoListing == [query |-> NoQuery, code |-> "none", pages |-> <<>>]
NoFetch == [code |-> "none", eventId |-> "", event |-> Null]

(* ------------------------------- state -------------------------------- *)

VARIABLES
  events,         \* EVENT#<id> / METADATA  -> capacity
  registrations,  \* EVENT#<id> -> set of REGISTRATION#<id> records
  seeded,         \* capacity.registered as written by the seed script
  pc,             \* where each request is
  req,            \* the parsed request of each execution unit
  existingEvent,  \* handler local (events.ts:154)
  event,          \* service local (dynamodb.ts:176)
  updatedEvent,   \* service local (dynamodb.ts:207-210)
  registrationId, \* service local (dynamodb.ts:172)
  result,         \* the response: "OK" or an error code
  fault,          \* the store operation that failed, if one did
  ops,            \* store operations issued so far by the request
  alone,          \* no other request was in flight during this one
  catalog,        \* EVENT#<id> / METADATA -> the attributes nothing rewrites
  listing,        \* a client paging through GET /events: its responses
  fetched         \* the response of a GET /events/{id}

vars == <<events, registrations, seeded, pc, req, existingEvent, event,
          updatedEvent, registrationId, result, fault, ops, alone,
          catalog, listing, fetched>>

\* What the read side keeps; no registration step touches it.
readVars == <<catalog, listing, fetched>>

NoReq == [eventId |-> "", body |-> MalformedBody]
NoOps == [get |-> 0, query |-> 0, update |-> 0, put |-> 0]

InFlight(r) == pc[r] \notin {"idle", "done"}

Init ==
  /\ \E reg \in 0..MaxCap :
       events = [id \in EventIds |-> [max |-> MaxCap, registered |-> reg]]
  /\ seeded = [id \in EventIds |-> events[id].registered]
  /\ registrations = [id \in EventIds |-> {}]
  /\ pc = [r \in Reqs |-> "idle"]
  /\ req = [r \in Reqs |-> NoReq]
  /\ existingEvent = [r \in Reqs |-> Null]
  /\ event = [r \in Reqs |-> Null]
  /\ updatedEvent = [r \in Reqs |-> Null]
  /\ registrationId = [r \in Reqs |-> 0]
  /\ result = [r \in Reqs |-> "none"]
  /\ fault = [r \in Reqs |-> "none"]
  /\ ops = [r \in Reqs |-> NoOps]
  /\ alone = [r \in Reqs |-> TRUE]
  /\ catalog = [id \in EventIds |-> PlainShape]
  /\ listing = NoListing
  /\ fetched = NoFetch

(* --------------------------- store adapter --------------------------- *)

\* GetItem on (EVENT#<id>, METADATA): the item, or Null when there is none.
getEvent(eventId) ==
  IF eventId \in DOMAIN events THEN events[eventId] ELSE Null

\* The records of a partition whose sort key begins with REGISTRATION#.
RegistrationsOf(eventId) ==
  IF eventId \in DOMAIN registrations THEN registrations[eventId] ELSE {}

\* Query with Limit: the store EVALUATES at most `limit` items in sort-key
\* order and only then applies the FilterExpression to what it evaluated.
QueryEvaluated(items, limit) ==
  { x \in items : Cardinality({ y \in items : y.id < x.id }) < limit }

\* Limit: 1 of the duplicate query (dynamodb.ts:159).
DuplicateQueryLimit == 1

\* The duplicate query sent without its FilterExpression: any evaluated
\* registration counts.
checkDuplicateRegistrationAnyEmail(eventId, email) ==
  Cardinality(QueryEvaluated(RegistrationsOf(eventId), DuplicateQueryLimit)) > 0

\* The duplicate query answering "none" whatever is stored.
checkDuplicateRegistrationNever(eventId, email) == FALSE

checkDuplicateRegistration(eventId, email) ==
  LET evaluated == QueryEvaluated(RegistrationsOf(eventId), DuplicateQueryLimit)
      Items == { x \in evaluated : x.attendeeEmail = email }
  IN Cardinality(Items) > 0

\* The update written without its ConditionExpression.
ConditionHoldsUnguarded(stored, currentRegistered) == stored # Null

\* ConditionExpression "#capacity.#registered = :currentRegistered".
ConditionHolds(stored, currentRegistered) ==
  stored # Null /\ stored.registered = currentRegistered

\* The capacity test made on the count before the group is added.
ExceedsCapacityBeforeGroup(newRegistered, max) == newRegistered - 1 > max

\* The capacity test refusing a group that exactly fills the event.
ExceedsCapacityAtMax(newRegistered, max) == newRegistered >= max

\* `newRegistered > event.capacity.max` (dynamodb.ts:183).
ExceedsCapacity(newRegistered, max) == newRegistered > max

\* The handler's test passing an event that is exactly at its maximum.
AlreadyFullBeyondMax(e) == e.registered > e.max

\* `existingEvent.capacity.registered >= existingEvent.capacity.max`.
AlreadyFull(e) == e.registered >= e.max

\* PutItem without a condition: an item with the same key is replaced.
PutItem(items, item) == { x \in items : x.id # item.id } \cup {item}

\* reg_${Date.now()}_${random}: an id that no stored record and no other
\* request carries.  The id is generated at dynamodb.ts:172 and first used by
\* the record write, where the model draws it.
FreshIds ==
  { i \in RegIds :
      /\ \A e \in DOMAIN registrations : \A x \in registrations[e] : x.id # i
      /\ \A q \in Reqs : registrationId[q] # i }

(* ------------------------ request validation ------------------------- *)

\* The validation with the email shape tested after the name and the group
\* size.
ValidationShapeLast(eventId, body) ==
  IF eventId = "" THEN "INVALID_REQUEST"
  ELSE IF body.kind = "malformed" THEN "INVALID_REQUEST"
  ELSE IF body.kind = "null" THEN "INTERNAL_ERROR"
  ELSE IF ~Truthy(body.attendeeEmail) \/ ~Truthy(body.attendeeName)
    THEN "INVALID_REQUEST"
  ELSE IF body.attendeeName.t # "string" \/ Len(trim(body.attendeeName.s)) = 0
    THEN "INVALID_REQUEST"
  ELSE IF \/ DefaultGroupSize(body.groupSize).t # "number"
          \/ DefaultGroupSize(body.groupSize).h < 2
          \/ ~IsInteger(DefaultGroupSize(body.groupSize))
    THEN "INVALID_REQUEST"
  ELSE IF ~validateEmail(body.attendeeEmail.s) THEN "INVALID_EMAIL"
  ELSE "PASS"

\* events.ts:97-151, in the order of the code; "PASS" when every check passes.
Validation(eventId, body) ==
  IF eventId = "" THEN "INVALID_REQUEST"
  ELSE IF body.kind = "malformed" THEN "INVALID_REQUEST"
  ELSE IF body.kind = "null" THEN "INTERNAL_ERROR"
  ELSE IF ~Truthy(body.attendeeEmail) \/ ~Truthy(body.attendeeName)
    THEN "INVALID_REQUEST"
  ELSE IF ~validateEmail(body.attendeeEmail.s) THEN "INVALID_EMAIL"
  ELSE IF body.attendeeName.t # "string" \/ Len(trim(body.attendeeName.s)) = 0
    THEN "INVALID_REQUEST"
  ELSE IF \/ DefaultGroupSize(body.groupSize).t # "number"
          \/ DefaultGroupSize(body.groupSize).h < 2
          \/ ~IsInteger(DefaultGroupSize(body.groupSize))
    THEN "INVALID_REQUEST"
  ELSE "PASS"

(* ------------------------------ actions ------------------------------ *)

Finish(r, code) ==
  /\ pc' = [pc EXCEPT ![r] = "done"]
  /\ result' = [result EXCEPT ![r] = code]

Count(r, op) == ops' = [ops EXCEPT ![r][op] = @ + 1]

\* A request arrives at a free execution unit and is validated
\* (events.ts:97-151); no store operation has been issued yet.
Arrive(r, ids, bodies) ==
  /\ pc[r] = "idle"
  /\ \A q \in Reqs : q < r => pc[q] # "idle"
  /\ \E id \in ids, body \in bodies :
       /\ req' = [req EXCEPT ![r] = [eventId |-> id, body |-> body]]
       /\ IF Validation(id, body) = "PASS"
            THEN /\ pc' = [pc EXCEPT ![r] = "getEvent"]
                 /\ UNCHANGED result
            ELSE Finish(r, Validation(id, body))
  /\ alone' = [q \in Reqs |->
                 IF q = r THEN \A o \in Reqs \ {r} : ~InFlight(o)
                 ELSE IF InFlight(q) THEN FALSE ELSE alone[q]]
  /\ UNCHANGED <<events, registrations, seeded, existingEvent, event,
                 updatedEvent, registrationId, fault, ops>>
  /\ UNCHANGED readVars

\* events.ts:154-157: the handler reads the event.
HandlerGetEvent(r) ==
  /\ pc[r] = "getEvent"
  /\ existingEvent' = [existingEvent EXCEPT ![r] = getEvent(req[r].eventId)]
  /\ Count(r, "get")
  /\ IF getEvent(req[r].eventId) = Null
       THEN Finish(r, "EVENT_NOT_FOUND")
       ELSE /\ pc' = [pc EXCEPT ![r] = "checkDuplicate"]
            /\ UNCHANGED result
  /\ UNCHANGED <<events, registrations, seeded, req, event, updatedEvent,
                 registrationId, fault, alone>>
  /\ UNCHANGED readVars

\* The handler testing the capacity before the duplicate answer.
HandlerCheckDuplicateFullFirst(r) ==
  /\ pc[r] = "checkDuplicate"
  /\ Count(r, "query")
  /\ IF AlreadyFull(existingEvent[r])
       THEN Finish(r, "EVENT_FULL")
       ELSE IF checkDuplicateRegistration(req[r].eventId,
                                          req[r].body.attendeeEmail.s)
         THEN Finish(r, "DUPLICATE_REGISTRATION")
         ELSE /\ pc' = [pc EXCEPT ![r] = "svcGetEvent"]
              /\ UNCHANGED result
  /\ UNCHANGED <<events, registrations, seeded, req, existingEvent, event,
                 updatedEvent, registrationId, fault, alone>>
  /\ UNCHANGED readVars

\* events.ts:160-176 and dynamodb.ts:172: the duplicate query answers, the
\* handler tests the capacity it read before, and registerForEvent starts.
HandlerCheckDuplicate(r) ==
  /\ pc[r] = "checkDuplicate"
  /\ Count(r, "query")
  /\ IF checkDuplicateRegistration(req[r].eventId, req[r].body.attendeeEmail.s)
       THEN Finish(r, "DUPLICATE_REGISTRATION")
       ELSE IF AlreadyFull(existingEvent[r])
         THEN Finish(r, "EVENT_FULL")
         ELSE /\ pc' = [pc EXCEPT ![r] = "svcGetEvent"]
              /\ UNCHANGED result
  /\ UNCHANGED <<events, registrations, seeded, req, existingEvent, event,
                 updatedEvent, registrationId, fault, alone>>
  /\ UNCHANGED readVars

\* dynamodb.ts:176-185: registerForEvent reads the event again and checks
\* the capacity.  Its EVENT_NOT_FOUND error is not INSUFFICIENT_CAPACITY, so
\* the handler rethrows it and answers INTERNAL_ERROR (events.ts:206-214).
RegisterGetEvent(r) ==
  /\ pc[r] = "svcGetEvent"
  /\ event' = [event EXCEPT ![r] = getEvent(req[r].eventId)]
  /\ Count(r, "get")
  /\ IF getEvent(req[r].eventId) = Null
       THEN Finish(r, "INTERNAL_ERROR")
       ELSE IF ExceedsCapacity(getEvent(req[r].eventId).registered
                                 + GroupSizeOf(req[r].body),
                               getEvent(req[r].eventId).max)
         THEN Finish(r, "INSUFFICIENT_CAPACITY")
         ELSE /\ pc' = [pc EXCEPT ![r] = "update"]
              /\ UNCHANGED result
  /\ UNCHANGED <<events, registrations, seeded, req, existingEvent,
                 updatedEvent, registrationId, fault, alone>>
  /\ UNCHANGED readVars

\* The update retried after a refused condition: the request reads the event
\* again instead of giving up.
RegisterUpdateRetrying(r) ==
  /\ pc[r] = "update"
  /\ Count(r, "update")
  /\ IF ConditionHolds(getEvent(req[r].eventId), event[r].registered)
       THEN /\ events' = [events EXCEPT ![req[r].eventId].registered =
                            event[r].registered + GroupSizeOf(req[r].body)]
            /\ updatedEvent' = [updatedEvent EXCEPT ![r] = events'[req[r].eventId]]
            /\ pc' = [pc EXCEPT ![r] = "put"]
       ELSE /\ pc' = [pc EXCEPT ![r] = "svcGetEvent"]
            /\ UNCHANGED <<events, updatedEvent>>
  /\ UNCHANGED <<registrations, seeded, req, existingEvent, event,
                 registrationId, result, fault, alone>>
  /\ UNCHANGED readVars

\* The update applied before its condition is looked at: a refused request
\* has overwritten the count all the same.
RegisterUpdateBlind(r) ==
  /\ pc[r] = "update"
  /\ Count(r, "update")
  /\ events' = [events EXCEPT ![req[r].eventId].registered =
                  event[r].registered + GroupSizeOf(req[r].body)]
  /\ IF ConditionHolds(getEvent(req[r].eventId), event[r].registered)
       THEN /\ updatedEvent' = [updatedEvent EXCEPT ![r] = events'[req[r].eventId]]
            /\ pc' = [pc EXCEPT ![r] = "put"]
            /\ UNCHANGED result
       ELSE /\ Finish(r, "INSUFFICIENT_CAPACITY")
            /\ UNCHANGED updatedEvent
  /\ UNCHANGED <<registrations, seeded, req, existingEvent, event,
                 registrationId, fault, alone>>
  /\ UNCHANGED readVars

\* The update whose refused condition is ignored: the request goes on to
\* write its record.
RegisterUpdateUnchecked(r) ==
  /\ pc[r] = "update"
  /\ Count(r, "update")
  /\ IF ConditionHolds(getEvent(req[r].eventId), event[r].registered)
       THEN /\ events' = [events EXCEPT ![req[r].eventId].registered =
                            event[r].registered + GroupSizeOf(req[r].body)]
            /\ updatedEvent' = [updatedEvent EXCEPT ![r] = events'[req[r].eventId]]
       ELSE UNCHANGED <<events, updatedEvent>>
  /\ pc' = [pc EXCEPT ![r] = "put"]
  /\ UNCHANGED <<registrations, seeded, req, existingEvent, event,
                 registrationId, result, fault, alone>>
  /\ UNCHANGED readVars

\* The update sent without the partition of the event in its key: the count
\* of every event is set.
RegisterUpdateEveryEvent(r) ==
  /\ pc[r] = "update"
  /\ Count(r, "update")
  /\ IF ConditionHolds(getEvent(req[r].eventId), event[r].registered)
       THEN /\ events' = [id \in DOMAIN events |->
                            [events[id] EXCEPT !.registered =
                               event[r].registered + GroupSizeOf(req[r].body)]]
            /\ updatedEvent' = [updatedEvent EXCEPT ![r] = events'[req[r].eventId]]
            /\ pc' = [pc EXCEPT ![r] = "put"]
            /\ UNCHANGED result
       ELSE /\ Finish(r, "INSUFFICIENT_CAPACITY")
            /\ UNCHANGED <<events, updatedEvent>>
  /\ UNCHANGED <<registrations, seeded, req, existingEvent, event,
                 registrationId, fault, alone>>
  /\ UNCHANGED readVars

\* dynamodb.ts:188-217: SET capacity.registered = :newRegistered, on the
\* condition that it still is what this request read.
RegisterUpdate(r) ==
  /\ pc[r] = "update"
  /\ Count(r, "update")
  /\ IF ConditionHolds(getEvent(req[r].eventId), event[r].registered)
       THEN /\ events' = [events EXCEPT ![req[r].eventId].registered =
                            event[r].registered + GroupSizeOf(req[r].body)]
            /\ updatedEvent' = [updatedEvent EXCEPT ![r] = events'[req[r].eventId]]
            /\ pc' = [pc EXCEPT ![r] = "put"]
            /\ UNCHANGED result
       ELSE /\ Finish(r, "INSUFFICIENT_CAPACITY")
            /\ UNCHANGED <<events, updatedEvent>>
  /\ UNCHANGED <<registrations, seeded, req, existingEvent, event,
                 registrationId, fault, alone>>
  /\ UNCHANGED readVars

\* dynamodb.ts:220-252 and events.ts:187-197: the record is written under
\* the id drawn at dynamodb.ts:172 and the request succeeds.  The PutItem
\* carries no condition.
RegisterPutDrawing(r, ids) ==
  /\ pc[r] = "put"
  /\ Count(r, "put")
  /\ \E i \in ids :
       /\ registrationId' = [registrationId EXCEPT ![r] = i]
       /\ registrations' =
            [registrations EXCEPT ![req[r].eventId] =
               PutItem(@, [id |-> i,
                           attendeeEmail |-> req[r].body.attendeeEmail.s,
                           attendeeName |-> req[r].body.attendeeName.s,
                           groupSize |-> GroupSizeOf(req[r].body)])]
  /\ Finish(r, "OK")
  /\ UNCHANGED <<events, seeded, req, existingEvent, event, updatedEvent,
                 fault, alone>>
  /\ UNCHANGED readVars

\* The record write when the generated id is one no record carries.
RegisterPut(r) == RegisterPutDrawing(r, FreshIds)

\* The record write when the millisecond and the random suffix may be those
\* of another request: any id, stored or not.
RegisterPutAnyId(r) == RegisterPutDrawing(r, RegIds)

\* A failure handled with a compensating write: when the record write fails
\* the capacity increment is taken back.
StoreFaultCompensating(r) ==
  /\ pc[r] \in {"getEvent", "checkDuplicate", "svcGetEvent", "update", "put"}
  /\ fault' = [fault EXCEPT ![r] = pc[r]]
  /\ Count(r, CASE pc[r] \in {"getEvent", "svcGetEvent"} -> "get"
                [] pc[r] = "checkDuplicate" -> "query"
                [] pc[r] = "update" -> "update"
                [] pc[r] = "put" -> "put")
  /\ Finish(r, "INTERNAL_ERROR")
  /\ events' = IF pc[r] = "put"
                 THEN [events EXCEPT ![req[r].eventId].registered =
                         @ - GroupSizeOf(req[r].body)]
                 ELSE events
  /\ UNCHANGED <<registrations, seeded, req, existingEvent, event,
                 updatedEvent, registrationId, alone>>
  /\ UNCHANGED readVars

\* The failure handled by sending the operation again: the request stays
\* where it is.
StoreFaultRetrying(r) ==
  /\ pc[r] \in {"getEvent", "checkDuplicate", "svcGetEvent", "update", "put"}
  /\ ops[r].get + ops[r].put < 3
  /\ fault' = [fault EXCEPT ![r] = pc[r]]
  /\ Count(r, CASE pc[r] \in {"getEvent", "svcGetEvent"} -> "get"
                [] pc[r] = "checkDuplicate" -> "query"
                [] pc[r] = "update" -> "update"
                [] pc[r] = "put" -> "put")
  /\ UNCHANGED <<events, registrations, seeded, req, existingEvent, event,
                 updatedEvent, registrationId, alone, pc, result>>
  /\ UNCHANGED readVars

\* A store operation fails without taking effect (unavailable, throttled):
\* client.send rejects, nothing catches it before events.ts:208, and the
\* handler answers INTERNAL_ERROR.
StoreFault(r) ==
  /\ pc[r] \in {"getEvent", "checkDuplicate", "svcGetEvent", "update", "put"}
  /\ fault' = [fault EXCEPT ![r] = pc[r]]
  /\ Count(r, CASE pc[r] \in {"getEvent", "svcGetEvent"} -> "get"
                [] pc[r] = "checkDuplicate" -> "query"
                [] pc[r] = "update" -> "update"
                [] pc[r] = "put" -> "put")
  /\ Finish(r, "INTERNAL_ERROR")
  /\ UNCHANGED <<events, registrations, seeded, req, existingEvent, event,
                 updatedEvent, registrationId, alone>>
  /\ UNCHANGED readVars

\* A write times out with its outcome unknown to the caller: the store has
\* applied it (the conditional update where its condition held, the record
\* write always) but client.send rejects, and the handler answers
\* INTERNAL_ERROR as for any other failure (dynamodb.ts:216, events.ts:208).
StoreTimeoutDrawing(r, ids) ==
  /\ pc[r] \in {"update", "put"}
  /\ fault' = [fault EXCEPT ![r] = "timeout"]
  /\ Count(r, pc[r])
  /\ Finish(r, "INTERNAL_ERROR")
  /\ IF pc[r] = "update"
       THEN /\ events' =
                 IF ConditionHolds(getEvent(req[r].eventId), event[r].registered)
                   THEN [events EXCEPT ![req[r].eventId].registered =
                           event[r].registered + GroupSizeOf(req[r].body)]
                   ELSE events
            /\ UNCHANGED <<registrations, registrationId>>
       ELSE /\ \E i \in ids :
                 /\ registrationId' = [registrationId EXCEPT ![r] = i]
                 /\ registrations' =
                      [registrations EXCEPT ![req[r].eventId] =
                         PutItem(@, [id |-> i,
                                     attendeeEmail |-> req[r].body.attendeeEmail.s,
                                     attendeeName |-> req[r].body.attendeeName.s,
                                     groupSize |-> GroupSizeOf(req[r].body)])]
            /\ UNCHANGED events
  /\ UNCHANGED <<seeded, req, existingEvent, event, updatedEvent, alone>>
  /\ UNCHANGED readVars

\* The timeout when the generated id is one no record carries, and when it
\* may be any.
StoreTimeout(r) == StoreTimeoutDrawing(r, FreshIds)
StoreTimeoutAnyId(r) == StoreTimeoutDrawing(r, RegIds)

\* The response has been returned; the execution unit keeps nothing.
Respond(r) ==
  /\ pc[r] = "done"
  /\ pc' = [pc EXCEPT ![r] = "idle"]
  /\ req' = [req EXCEPT ![r] = NoReq]
  /\ existingEvent' = [existingEvent EXCEPT ![r] = Null]
  /\ event' = [event EXCEPT ![r] = Null]
  /\ updatedEvent' = [updatedEvent EXCEPT ![r] = Null]
  /\ registrationId' = [registrationId EXCEPT ![r] = 0]
  /\ result' = [result EXCEPT ![r] = "none"]
  /\ fault' = [fault EXCEPT ![r] = "none"]
  /\ ops' = [ops EXCEPT ![r] = NoOps]
  /\ alone' = [alone EXCEPT ![r] = TRUE]
  /\ UNCHANGED <<events, registrations, seeded>>
  /\ UNCHANGED readVars

(* ----------------------- catalog: list and fetch ---------------------- *)

\* `params.limit || 25` and Math.min(.., 100) (dynamodb.ts:54); the handler
\* accepts 1..100 (events.ts:47); Limit: limit * 2 (dynamodb.ts:62).
DefaultLimit == 25
MaxLimit == 100
OverFetch == 2

NaN == [t |-> "NaN", s |-> <<>>, h |-> 0]

Min(a, b) == IF a <= b THEN a ELSE b

Digits == <<"0", "1", "2", "3", "4", "5", "6", "7", "8", "9">>
IsDigit(c) == \E d \in 1..Len(Digits) : Digits[d] = c
DigitValue(c) == (CHOOSE d \in 1..Len(Digits) : Digits[d] = c) - 1

\* The longest prefix of s made of decimal digits.
RECURSIVE DigitPrefix(_)
DigitPrefix(s) ==
  IF s = <<>> \/ ~IsDigit(Head(s)) THEN <<>>
  ELSE <<Head(s)>> \o DigitPrefix(Tail(s))

RECURSIVE Decimal(_)
Decimal(d) ==
  IF d = <<>> THEN 0
  ELSE 10 * Decimal(SubSeq(d, 1, Len(d) - 1)) + DigitValue(d[Len(d)])

\* parseInt(text, 10): leading whitespace and one sign are skipped, the
\* digits that follow are read and the rest is ignored; NaN without a digit.
parseInt(text) ==
  LET t == TrimStart(text)
      signed == t # <<>> /\ Head(t) \in {"-", "+"}
      d == DigitPrefix(IF signed THEN Tail(t) ELSE t)
  IN IF d = <<>> THEN NaN
     ELSE IF Head(t) = "-" THEN Num(0 - 2 * Decimal(d))
     ELSE Num(2 * Decimal(d))

isNaN(v) == v.t \in {"NaN", "undefined"}

\* events.ts:46: `params.limit ? parseInt(params.limit, 10) : undefined`.
LimitOf(param) == IF Truthy(param) THEN parseInt(param.s) ELSE Undef

\* The range test without its upper end.
LimitRejectedBelowOnly(limit) ==
  Truthy(limit) /\ (isNaN(limit) \/ limit.h < 2)

\* events.ts:47: `limit && (isNaN(limit) || limit < 1 || limit > 100)`.
LimitRejected(limit) ==
  Truthy(limit) /\ (isNaN(limit) \/ limit.h < 2 \/ limit.h > 2 * MaxLimit)

\* dynamodb.ts:54: Math.min(params.limit || 25, 100).
EffectiveLimit(limit) ==
  Min(IF Truthy(limit) THEN limit.h \div 2 ELSE DefaultLimit, MaxLimit)

\* Sort key METADATA; it sorts before every REGISTRATION#<id>.
MetadataKey == 0
NoKey == [pk |-> "", sk |-> -1]

RECURSIVE SortBySortKey(_)
SortBySortKey(S) ==
  IF S = {} THEN <<>>
  ELSE LET x == CHOOSE y \in S : \A z \in S : y.id <= z.id
       IN <<x>> \o SortBySortKey(S \ {x})

\* The keys of one partition in sort-key order.
Partition(id) ==
  LET sorted == SortBySortKey(RegistrationsOf(id))
  IN <<[pk |-> id, sk |-> MetadataKey]>>
       \o [i \in 1..Len(sorted) |-> [pk |-> id, sk |-> sorted[i].id]]

RECURSIVE TableFrom(_)
TableFrom(i) ==
  IF i > MaxEvents THEN <<>>
  ELSE (IF PartitionOrder[i] \in DOMAIN events
          THEN Partition(PartitionOrder[i]) ELSE <<>>) \o TableFrom(i + 1)

\* Every item of the table, events and registrations alike, in scan order.
Table == TableFrom(1)

PartitionIndex(pk) == CHOOSE i \in 1..MaxEvents : PartitionOrder[i] = pk

\* Key a is at or before key b in scan order.
AtOrBefore(a, b) ==
  \/ PartitionIndex(a.pk) < PartitionIndex(b.pk)
  \/ a.pk = b.pk /\ a.sk <= b.sk

\* Scan with Limit and ExclusiveStartKey: the store evaluates at most
\* `limit` items after the start key, whatever the FilterExpression keeps,
\* and reports the key it stopped at when the limit stopped it; it reports
\* none when it ran to the end of the table first.
Scan(exclusiveStartKey, limit) ==
  LET table == Table
      start == IF exclusiveStartKey = NoKey THEN 0
               ELSE Cardinality({ i \in 1..Len(table) :
                                    AtOrBefore(table[i], exclusiveStartKey) })
      stop == Min(start + limit, Len(table))
  IN [Items |-> SubSeq(table, start + 1, stop),
      LastEvaluatedKey |-> IF start + limit <= Len(table) THEN table[stop]
                           ELSE NoKey]

\* Buffer.from(JSON.stringify(unmarshall(key))).toString("base64"): the two
\* key attributes as text.
EncodeKey(key) == <<key.pk, ToString(key.sk)>>

\* JSON.parse(Buffer.from(lastKey, "base64").toString()) succeeds.
TokenParses(token) ==
  /\ Len(token) = 2
  /\ \E i \in 1..MaxEvents : PartitionOrder[i] = token[1]
  /\ \E k \in 0..MaxRegId : ToString(k) = token[2]

DecodeKey(token) ==
  [pk |-> token[1], sk |-> CHOOSE k \in 0..MaxRegId : ToString(k) = token[2]]

\* dynamodb.ts:69-81: the event of a METADATA item.
EventOf(id) ==
  [id |-> id, category |-> catalog[id].category, title |-> catalog[id].title,
   description |-> catalog[id].description,
   max |-> events[id].max, registered |-> events[id].registered]

ToLower(c) == CASE c = "A" -> "a" [] c = "B" -> "b" [] OTHER -> c

\* String.prototype.toLowerCase and includes.
toLowerCase(s) == [i \in 1..Len(s) |-> ToLower(s[i])]
includes(s, sub) ==
  \E i \in 1..(Len(s) + 1) :
    i + Len(sub) - 1 <= Len(s) /\ SubSeq(s, i, i + Len(sub) - 1) = sub

\* dynamodb.ts:84-86.
FilterCategory(evs, category) ==
  IF Truthy(category)
    THEN SelectSeq(evs, LAMBDA e : e.category = category.s)
    ELSE evs

\* dynamodb.ts:88-95.
FilterSearch(evs, search) ==
  IF Truthy(search)
    THEN SelectSeq(evs, LAMBDA e :
           \/ includes(toLowerCase(e.title), toLowerCase(search.s))
           \/ includes(toLowerCase(e.description), toLowerCase(search.s)))
    ELSE evs

\* The status filter with "available" taken as registered <= max.
FilterStatusInclusive(evs, status) ==
  IF Truthy(status)
    THEN IF status.s = Available
           THEN SelectSeq(evs, LAMBDA e : e.registered <= e.max)
         ELSE IF status.s = Full
           THEN SelectSeq(evs, LAMBDA e : e.registered >= e.max)
         ELSE evs
    ELSE evs

\* dynamodb.ts:97-103.
FilterStatus(evs, status) ==
  IF Truthy(status)
    THEN IF status.s = Available
           THEN SelectSeq(evs, LAMBDA e : e.registered < e.max)
         ELSE IF status.s = Full
           THEN SelectSeq(evs, LAMBDA e : e.registered >= e.max)
         ELSE evs
    ELSE evs

\* The page counted before it is cut to the limit.
PageOfUncut(evs, limit) ==
  [events |-> SubSeq(evs, 1, Min(limit, Len(evs))), total |-> Len(evs)]

\* dynamodb.ts:106 and 111: events.slice(0, limit) and its length.
PageOf(evs, limit) ==
  LET limitedEvents == SubSeq(evs, 1, Min(limit, Len(evs)))
  IN [events |-> limitedEvents, total |-> Len(limitedEvents)]

\* A token made whenever an item was evaluated, the scan having stopped at
\* the limit or not.
NextKeyOfLastItem(evs, limit, scanned) ==
  IF Len(scanned.Items) > 0
    THEN Str(EncodeKey(scanned.Items[Len(scanned.Items)]))
    ELSE Undef

\* dynamodb.ts:107 and 112-114: hasMore && result.LastEvaluatedKey.
NextKey(evs, limit, scanned) ==
  LET hasMore == Len(evs) > limit \/ scanned.LastEvaluatedKey # NoKey
  IN IF hasMore /\ scanned.LastEvaluatedKey # NoKey
       THEN Str(EncodeKey(scanned.LastEvaluatedKey))
       ELSE Undef

\* The scan sent without its FilterExpression: every item it evaluated,
\* registration records too, is turned into an event of its partition.
FetchedUnfiltered(query, limit) ==
  LET scanned == Scan(IF Truthy(query.lastKey)
                        THEN DecodeKey(query.lastKey.s) ELSE NoKey,
                      limit * OverFetch)
      all == [i \in 1..Len(scanned.Items) |-> EventOf(scanned.Items[i].pk)]
  IN [scanned |-> scanned,
      events |-> FilterStatus(FilterSearch(FilterCategory(all, query.category),
                                           query.search),
                              query.status)]

\* dynamodb.ts:56-103: what one call scanned, and the events of it that
\* passed the filters, before the page is cut.
Fetched(query, limit) ==
  LET scanned == Scan(IF Truthy(query.lastKey)
                        THEN DecodeKey(query.lastKey.s) ELSE NoKey,
                      limit * OverFetch)
      items == SelectSeq(scanned.Items, LAMBDA k : k.sk = MetadataKey)
      all == [i \in 1..Len(items) |-> EventOf(items[i].pk)]
  IN [scanned |-> scanned,
      events |-> FilterStatus(FilterSearch(FilterCategory(all, query.category),
                                           query.search),
                              query.status)]

\* dynamodb.ts:53-116.
listEvents(query, limitParam) ==
  LET limit == EffectiveLimit(limitParam)
      f == Fetched(query, limit)
      page == PageOf(f.events, limit)
  IN [code |-> "OK", events |-> page.events, total |-> page.total,
      lastKey |-> NextKey(f.events, limit, f.scanned),
      limit |-> limit, matched |-> Len(f.events),
      more |-> f.scanned.LastEvaluatedKey # NoKey]

ListError(code) ==
  [code |-> code, events |-> <<>>, total |-> 0, lastKey |-> Undef,
   limit |-> 0, matched |-> 0, more |-> FALSE]

\* events.ts:40-68.  A lastKey that does not parse throws inside listEvents
\* and the handler answers INTERNAL_ERROR.
listEventsHandler(query) ==
  IF LimitRejected(LimitOf(query.limit)) THEN ListError("INVALID_REQUEST")
  ELSE IF Truthy(query.lastKey) /\ ~TokenParses(query.lastKey.s)
    THEN ListError("INTERNAL_ERROR")
  ELSE listEvents(query, LimitOf(query.limit))

\* events.ts:70-91.
getEventHandler(eventId) ==
  IF eventId = ""
    THEN [code |-> "INVALID_REQUEST", eventId |-> eventId, event |-> Null]
  ELSE IF getEvent(eventId) = Null
    THEN [code |-> "EVENT_NOT_FOUND", eventId |-> eventId, event |-> Null]
  ELSE [code |-> "OK", eventId |-> eventId, event |-> getEvent(eventId)]

\* What the registration side keeps; no read touches it.
registerVars == <<events, registrations, seeded, pc, req, existingEvent,
                  event, updatedEvent, registrationId, result, fault, ops,
                  alone>>

\* The client's pages after one more call of GET /events; the scan is the
\* only store operation of the call.
Listed(first, query, pages) ==
  LET response == listEventsHandler(query)
  IN [query |-> first,
      code |-> response.code,
      pages |-> IF response.code = "OK" THEN Append(pages, response)
                ELSE pages]

\* A client asks for a first page.
ListFirstPage(queries) ==
  /\ listing.code = "none"
  /\ \E q \in queries : listing' = Listed(q, q, <<>>)
  /\ UNCHANGED <<registerVars, catalog, fetched>>

\* The client passes the lastKey of its latest page with the same filters.
ListNextPage ==
  /\ listing.code = "OK"
  /\ Truthy(listing.pages[Len(listing.pages)].lastKey)
  /\ listing' =
       Listed(listing.query,
              [listing.query EXCEPT
                 !.lastKey = listing.pages[Len(listing.pages)].lastKey],
              listing.pages)
  /\ UNCHANGED <<registerVars, catalog, fetched>>

\* GET /events/{id}: one GetItem.
FetchEvent(ids) ==
  /\ fetched.code = "none"
  /\ \E id \in ids : fetched' = getEventHandler(id)
  /\ UNCHANGED <<registerVars, catalog, listing>>

\* The Scan of a list request fails (unavailable, timed out): client.send
\* rejects inside listEvents and the handler answers INTERNAL_ERROR
\* (events.ts:64-67).  The request is a first page or the next page of the
\* client's listing.
ScanFault(queries) ==
  /\ \/ /\ listing.code = "none"
        /\ \E q \in queries :
             /\ ~LimitRejected(LimitOf(q.limit))
             /\ ~Truthy(q.lastKey)
             /\ listing' = [query |-> q, code |-> "INTERNAL_ERROR", pages |-> <<>>]
     \/ /\ listing.code = "OK"
        /\ Truthy(listing.pages[Len(listing.pages)].lastKey)
        /\ listing' = [listing EXCEPT !.code = "INTERNAL_ERROR"]
  /\ UNCHANGED <<registerVars, catalog, fetched>>

\* The GetItem of a fetch request fails: the handler answers INTERNAL_ERROR
\* (events.ts:87-90).
GetItemFault(ids) ==
  /\ fetched.code = "none"
  /\ \E id \in ids \ {""} :
       fetched' = [code |-> "INTERNAL_ERROR", eventId |-> id, event |-> Null]
  /\ UNCHANGED <<registerVars, catalog, listing>>

\* One step of request r: the answer of the store to its pending operation.
StoreAnswers(r) ==
  \/ HandlerGetEvent(r)
  \/ HandlerCheckDuplicate(r)
  \/ RegisterGetEvent(r)
  \/ RegisterUpdate(r)
  \/ RegisterPut(r)

\* The emails of the requests that have arrived.
UsedEmails == { req[q].body.attendeeEmail.s : q \in { o \in Reqs : pc[o] # "idle" } }

\* Emails matter to the engine only by being equal or different, so a new
\* request carries an email already in use or the next unused one of
\* EmailList; every pattern of equal and different emails still occurs.
NextEmails ==
  { EmailList[i] : i \in { j \in 1..Len(EmailList) : j <= Cardinality(UsedEmails) + 1 } }

\* NReq requests with well-formed bodies for the seeded event, interleaved
\* in every way at their store operations.
ArriveValid(r) ==
  Arrive(r, EventIds, { b \in ValidBodies : b.attendeeEmail.s \in NextEmails })

Next ==
  \E r \in Reqs :
    \/ ArriveValid(r)
    \/ HandlerGetEvent(r)
    \/ HandlerCheckDuplicate(r)
    \/ RegisterGetEvent(r)
    \/ RegisterUpdate(r)
    \/ RegisterPut(r)
    \/ StoreFault(r)

Spec == Init /\ [][Next]_vars

\* One request after another, each with any body shape and path id.
ArriveAlone(r) ==
  /\ \A q \in Reqs : pc[q] = "idle"
  /\ Arrive(r, AllPathIds, AllBodies)

NextSeq ==
  \E r \in Reqs :
    \/ ArriveAlone(r)
    \/ HandlerGetEvent(r)
    \/ HandlerCheckDuplicate(r)
    \/ RegisterGetEvent(r)
    \/ RegisterUpdate(r)
    \/ RegisterPut(r)
    \/ StoreFault(r)
    \/ Respond(r)

SpecSeq == Init /\ [][NextSeq]_vars

\* Bodies the validation turns away: a malformed email, a blank name.
RejectedBodies ==
  { ObjectBody(Str(<<"a", "@", "b", "c">>), Str(NameN), Num(2)),
    ObjectBody(Str(EmailA), Str(<<" ">>), Num(2)) }

\* Concurrent requests of every outcome: for the seeded event with a
\* well-formed body or one of RejectedBodies, or for an id that no event has.
ArriveAny(r) ==
  \/ Arrive(r, EventIds,
            { b \in ValidBodies : b.attendeeEmail.s \in NextEmails }
              \cup RejectedBodies)
  \/ Arrive(r, {"9"}, { ObjectBody(Str(EmailA), Str(NameN), Num(2)) })

NextAny ==
  \E r \in Reqs :
    \/ ArriveAny(r)
    \/ HandlerGetEvent(r)
    \/ HandlerCheckDuplicate(r)
    \/ RegisterGetEvent(r)
    \/ RegisterUpdate(r)
    \/ RegisterPut(r)
    \/ StoreFault(r)

SpecAny == Init /\ [][NextAny]_vars

\* The registration records an event is seeded with.
SeededRecords(shape) ==
  IF shape.records = 0 THEN {}
  ELSE { [id |-> 1, attendeeEmail |-> EmailA, attendeeName |-> NameN,
          groupSize |-> 1] }

\* A catalog of up to MaxEvents events of any shapes, and no request yet.
InitList ==
  /\ \E n \in 1..MaxEvents :
       \E shape \in [{ PartitionOrder[i] : i \in 1..n } -> EventShapes] :
         /\ events = [id \in DOMAIN shape |->
                        [max |-> MaxCap, registered |-> MaxCap - shape[id].free]]
         /\ catalog = [id \in DOMAIN shape |->
                         [category |-> shape[id].category,
                          title |-> shape[id].title,
                          description |-> shape[id].description]]
         /\ registrations = [id \in DOMAIN shape |-> SeededRecords(shape[id])]
  /\ seeded = [id \in DOMAIN events |-> events[id].registered]
  /\ pc = [r \in Reqs |-> "idle"]
  /\ req = [r \in Reqs |-> NoReq]
  /\ existingEvent = [r \in Reqs |-> Null]
  /\ event = [r \in Reqs |-> Null]
  /\ updatedEvent = [r \in Reqs |-> Null]
  /\ registrationId = [r \in Reqs |-> 0]
  /\ result = [r \in Reqs |-> "none"]
  /\ fault = [r \in Reqs |-> "none"]
  /\ ops = [r \in Reqs |-> NoOps]
  /\ alone = [r \in Reqs |-> TRUE]
  /\ listing = NoListing
  /\ fetched = NoFetch

\* The path ids of the catalog, one that no event has, and a missing one.
FetchIds == { PartitionOrder[i] : i \in 1..MaxEvents } \cup {"9", ""}

\* One client per behaviour: it pages through a listing or fetches an event.
ListAlone == fetched = NoFetch /\ ListFirstPage(AllQueries)
FetchAlone == listing = NoListing /\ FetchEvent(FetchIds)

\* The read side over a fixed dataset.
NextList ==
  \/ ListAlone
  \/ ListNextPage
  \/ FetchAlone

SpecList == InitList /\ [][NextList]_vars

\* Requests with pairwise different emails.
ArriveDistinct(r) ==
  Arrive(r, EventIds,
         { b \in ValidBodies : b.attendeeEmail.s \in NextEmails \ UsedEmails })

\* One read beside the registrations: a listing with no parameter, or a
\* fetch of the seeded event.
ListBeside == fetched = NoFetch /\ ListFirstPage({NoQuery})
FetchBeside == listing = NoListing /\ FetchEvent(EventIds)

\* Every operation of the core: registrations interleaved at their store
\* operations, in any outcome, with a list and a fetch at any point.
NextCore ==
  \/ \E r \in Reqs :
       \/ ArriveDistinct(r)
       \/ HandlerGetEvent(r)
       \/ HandlerCheckDuplicate(r)
       \/ RegisterGetEvent(r)
       \/ RegisterUpdate(r)
       \/ RegisterPut(r)
       \/ StoreFault(r)
  \/ ListBeside
  \/ FetchBeside

SpecCore == Init /\ [][NextCore]_vars

\* Concurrent requests with pairwise different emails whose generated ids
\* may coincide.
NextCollide ==
  \E r \in Reqs :
    \/ ArriveDistinct(r)
    \/ HandlerGetEvent(r)
    \/ HandlerCheckDuplicate(r)
    \/ RegisterGetEvent(r)
    \/ RegisterUpdate(r)
    \/ RegisterPutAnyId(r)
    \/ StoreFault(r)

SpecCollide == Init /\ [][NextCollide]_vars

\* A registration of another attendee that an event may hold already; its
\* sort key is the lowest.
PriorRecord ==
  [id |-> 1, attendeeEmail |-> EmailD, attendeeName |-> NameN, groupSize |-> 1]

\* The event after any earlier registrations: it holds PriorRecord or no
\* record, and has room for up to MaxCap more places.
InitRetry ==
  /\ \E prior \in SUBSET {PriorRecord} :
       /\ registrations = [id \in EventIds |-> prior]
       /\ \E reg \in Cardinality(prior)..(MaxCap + Cardinality(prior)) :
            events = [id \in EventIds |->
                        [max |-> MaxCap + Cardinality(prior), registered |-> reg]]
  /\ seeded = [id \in EventIds |->
                 events[id].registered
                   - PriorRecord.groupSize * Cardinality(registrations[id])]
  /\ pc = [r \in Reqs |-> "idle"]
  /\ req = [r \in Reqs |-> NoReq]
  /\ existingEvent = [r \in Reqs |-> Null]
  /\ event = [r \in Reqs |-> Null]
  /\ updatedEvent = [r \in Reqs |-> Null]
  /\ registrationId = [r \in Reqs |-> 0]
  /\ result = [r \in Reqs |-> "none"]
  /\ fault = [r \in Reqs |-> "none"]
  /\ ops = [r \in Reqs |-> NoOps]
  /\ alone = [r \in Reqs |-> TRUE]
  /\ catalog = [id \in EventIds |-> PlainShape]
  /\ listing = NoListing
  /\ fetched = NoFetch

\* A caller sends a registration once the one before it has been answered:
\* a new one, or the same one again.
ArriveInTurn(r) ==
  /\ \A q \in Reqs : ~InFlight(q)
  /\ ArriveValid(r)

\* One attempt after another, where a store operation may fail or time out
\* and the caller may send the registration again.
NextRetry ==
  \E r \in Reqs :
    \/ ArriveInTurn(r)
    \/ HandlerGetEvent(r)
    \/ HandlerCheckDuplicate(r)
    \/ RegisterGetEvent(r)
    \/ RegisterUpdate(r)
    \/ RegisterPut(r)
    \/ StoreFault(r)
    \/ StoreTimeout(r)

SpecRetry == InitRetry /\ [][NextRetry]_vars

\* Well-formed bodies that give no group size, or a group of one or two.
GroupBodies ==
  { ObjectBody(Str(e), Str(NameN), g) :
      e \in ValidEmails, g \in {Undef, Num(2), Num(4)} }

\* Concurrent requests with pairwise different emails, with and without a
\* group size.
ArriveGroups(r) ==
  Arrive(r, EventIds,
         { b \in GroupBodies : b.attendeeEmail.s \in NextEmails \ UsedEmails })

NextGroups ==
  \E r \in Reqs :
    \/ ArriveGroups(r)
    \/ HandlerGetEvent(r)
    \/ HandlerCheckDuplicate(r)
    \/ RegisterGetEvent(r)
    \/ RegisterUpdate(r)
    \/ RegisterPut(r)
    \/ StoreFault(r)

SpecGroups == Init /\ [][NextGroups]_vars

\* The store answers every operation it was sent, with its result or with a
\* failure: each await of a request in flight settles.
StoreResponds == \A r \in Reqs : WF_vars(StoreAnswers(r) \/ StoreFault(r))

\* Requests for one place each, with pairwise different emails.
ArriveSingle(r) ==
  Arrive(r, EventIds,
         { b \in ValidBodies : /\ b.attendeeEmail.s \in NextEmails \ UsedEmails
                               /\ b.groupSize = Num(2) })

NextLive ==
  \E r \in Reqs :
    \/ ArriveSingle(r)
    \/ StoreAnswers(r)
    \/ StoreFault(r)

\* Concurrent requests under a store that answers.
SpecLive == Init /\ [][NextLive]_vars /\ StoreResponds

\* A request carrying the email of the registration the event may hold
\* already, or another one.
ArriveKnown(r) ==
  Arrive(r, EventIds,
         { b \in ValidBodies : b.attendeeEmail.s \in {EmailA, EmailD} })

\* Concurrent requests for an event that may hold a registration and may be
\* full, where the generated ids may coincide with a stored one.
NextReject ==
  \E r \in Reqs :
    \/ ArriveKnown(r)
    \/ HandlerGetEvent(r)
    \/ HandlerCheckDuplicate(r)
    \/ RegisterGetEvent(r)
    \/ RegisterUpdate(r)
    \/ RegisterPutAnyId(r)
    \/ StoreFault(r)

SpecReject == InitRetry /\ [][NextReject]_vars

\* Concurrent requests with pairwise different emails under every outcome
\* of a store operation: it answers, fails without effect, or times out
\* after being applied; the generated ids may coincide.
NextAccount ==
  \E r \in Reqs :
    \/ ArriveDistinct(r)
    \/ HandlerGetEvent(r)
    \/ HandlerCheckDuplicate(r)
    \/ RegisterGetEvent(r)
    \/ RegisterUpdate(r)
    \/ RegisterPutAnyId(r)
    \/ StoreFault(r)
    \/ StoreTimeoutAnyId(r)

SpecAccount == Init /\ [][NextAccount]_vars

\* Two events that differ in every attribute: their capacity, category,
\* title and description.
FrameIds == { PartitionOrder[1], PartitionOrder[2] }
FrameShape(id) ==
  IF id = PartitionOrder[1] THEN PlainShape
  ELSE [category |-> Business, title |-> <<"b">>, description |-> <<"c", "a">>]
FrameMax(id) == IF id = PartitionOrder[1] THEN MaxCap ELSE MaxCap + 1

InitFrame ==
  /\ \E reg \in 0..MaxCap :
       events = [id \in FrameIds |-> [max |-> FrameMax(id), registered |-> reg]]
  /\ seeded = [id \in FrameIds |-> events[id].registered]
  /\ registrations = [id \in FrameIds |-> {}]
  /\ catalog = [id \in FrameIds |-> FrameShape(id)]
  /\ pc = [r \in Reqs |-> "idle"]
  /\ req = [r \in Reqs |-> NoReq]
  /\ existingEvent = [r \in Reqs |-> Null]
  /\ event = [r \in Reqs |-> Null]
  /\ updatedEvent = [r \in Reqs |-> Null]
  /\ registrationId = [r \in Reqs |-> 0]
  /\ result = [r \in Reqs |-> "none"]
  /\ fault = [r \in Reqs |-> "none"]
  /\ ops = [r \in Reqs |-> NoOps]
  /\ alone = [r \in Reqs |-> TRUE]
  /\ listing = NoListing
  /\ fetched = NoFetch

\* A well-formed request for either event, sent once the one before it has
\* been answered, with an email no other request carries.
ArriveEither(r) ==
  /\ \A q \in Reqs : ~InFlight(q)
  /\ Arrive(r, FrameIds,
            { b \in ValidBodies : b.attendeeEmail.s \in NextEmails \ UsedEmails })

ListEither == fetched = NoFetch /\ ListFirstPage({NoQuery})
FetchEither == listing = NoListing /\ FetchEvent(FrameIds)

\* Registrations for two events in turn, with a list or a fetch at any
\* point.
NextFrame ==
  \/ \E r \in Reqs :
       \/ ArriveEither(r)
       \/ HandlerGetEvent(r)
       \/ HandlerCheckDuplicate(r)
       \/ RegisterGetEvent(r)
       \/ RegisterUpdate(r)
       \/ RegisterPut(r)
       \/ StoreFault(r)
  \/ ListEither
  \/ FetchEither

SpecFrame == InitFrame /\ [][NextFrame]_vars

\* A listing of one event per page: it has a next page as soon as the event
\* holds a registration.
InfraQueries == { [NoQuery EXCEPT !.limit = Str(<<"1">>)] }

\* One client beside the registrations: it pages through a listing or
\* fetches the event, and either read may fail.
ListOrFail ==
  /\ fetched = NoFetch
  /\ \/ ListFirstPage(InfraQueries)
     \/ ListNextPage
     \/ ScanFault(InfraQueries)

FetchOrFail ==
  /\ listing = NoListing
  /\ \/ FetchEvent(EventIds)
     \/ GetItemFault(EventIds)

\* Every request of the core where any store operation may fail or time
\* out: registrations in turn, with the reads of the client at any point.
NextInfra ==
  \/ \E r \in Reqs :
       \/ ArriveInTurn(r)
       \/ HandlerGetEvent(r)
       \/ HandlerCheckDuplicate(r)
       \/ RegisterGetEvent(r)
       \/ RegisterUpdate(r)
       \/ RegisterPut(r)
       \/ StoreFault(r)
       \/ StoreTimeout(r)
  \/ ListOrFail
  \/ FetchOrFail

SpecInfra == Init /\ [][NextInfra]_vars

(* ------------------------------ claims ------------------------------- *)

Email(r) == req[r].body.attendeeEmail.s
GroupSize(r) == GroupSizeOf(req[r].body)
Done(r) == pc[r] = "done"

RECURSIVE SumGroupSize(_)
SumGroupSize(S) ==
  IF S = {} THEN 0
  ELSE LET x == CHOOSE y \in S : TRUE
       IN x.groupSize + SumGroupSize(S \ {x})

\* The requests that were answered with success.
Accepted == { r \in Reqs : result[r] = "OK" }

\* The conditional update of r was refused by its condition.
CasFailed(r) ==
  ops[r].update = 1 /\ updatedEvent[r] = Null /\ fault[r] # "update"

\* C1: no oversell.  In every state reachable by registration requests
\* interleaved at their store operations, every event has
\* 0 <= registered <= max, and the group sizes of its stored registrations
\* fit in the capacity that was free when it was seeded.
NoOversell ==
  \A id \in DOMAIN events :
    /\ 0 <= events[id].registered
    /\ events[id].registered <= events[id].max
    /\ seeded[id] + SumGroupSize(registrations[id]) <= events[id].max

\* Two requests raced for the last slot: one took it, the other's
\* conditional update was refused, and the event is exactly full.
LastSlotContended ==
  \E r, q \in Reqs :
    /\ r # q
    /\ req[r].eventId = req[q].eventId
    /\ result[r] = "OK"
    /\ CasFailed(q) /\ Done(q)
    /\ events[req[r].eventId].registered = events[req[r].eventId].max

\* Every request has been answered without a store failure; all were for one
\* event, overlapped in time, carried pairwise distinct emails, and the
\* event had room for any one of them but for no two.
LastSlotRace ==
  /\ \A r \in Reqs : Done(r) /\ fault[r] = "none" /\ ~alone[r]
  /\ \E id \in DOMAIN events :
       /\ \A r \in Reqs :
            /\ req[r].eventId = id
            /\ seeded[id] + GroupSize(r) <= events[id].max
       /\ \A r, q \in Reqs :
            r # q => /\ Email(r) # Email(q)
                     /\ seeded[id] + GroupSize(r) + GroupSize(q) > events[id].max

\* C2 as stated: in a last-slot race exactly one request succeeds and every
\* other one is answered INSUFFICIENT_CAPACITY.
LastSlotRaceLosersInsufficient ==
  LastSlotRace =>
    /\ Cardinality(Accepted) = 1
    /\ \A r \in Reqs \ Accepted : result[r] = "INSUFFICIENT_CAPACITY"

\* C2 amended: in a last-slot race exactly one request succeeds and every
\* other one is answered INSUFFICIENT_CAPACITY or EVENT_FULL.
LastSlotRaceOneWinner ==
  LastSlotRace =>
    /\ Cardinality(Accepted) = 1
    /\ \A r \in Reqs \ Accepted :
         result[r] \in {"INSUFFICIENT_CAPACITY", "EVENT_FULL"}

\* A last-slot race that a failed conditional update decided.
LastSlotRaceDecidedByCas ==
  LastSlotRace /\ \E r \in Reqs : CasFailed(r)

\* A stored registration of r's event, not r's own, carries r's email.
PriorRegistration(r) ==
  \E x \in RegistrationsOf(req[r].eventId) :
    x.attendeeEmail = Email(r) /\ x.id # registrationId[r]

\* C3: with requests running one after another, a well-formed request whose
\* email is carried by a registration stored for its event before it
\* started is answered DUPLICATE_REGISTRATION, wherever that registration
\* sits among the records of the event.
SequentialDuplicateRejected ==
  \A r \in Reqs :
    ( /\ Done(r) /\ fault[r] = "none"
      /\ Validation(req[r].eventId, req[r].body) = "PASS"
      /\ PriorRegistration(r) )
    => result[r] = "DUPLICATE_REGISTRATION"

\* The request that wrote the record with this id.
WriterOf(i) == { r \in Reqs : registrationId[r] = i }

\* C4: the duplicate check is a read that nothing serializes: when an event
\* holds exactly two registrations and both carry one email, the two
\* requests that wrote them overlapped in time, each having passed its
\* duplicate check before the other wrote; a request that starts once such a
\* lone record is stored is turned away.
DuplicateRecordsOnlyByRace ==
  \A id \in DOMAIN registrations : \A x, y \in registrations[id] :
    ( /\ x # y
      /\ x.attendeeEmail = y.attendeeEmail
      /\ registrations[id] = {x, y} )
    => \A r \in WriterOf(x.id) \cup WriterOf(y.id) :
         /\ ~alone[r]
         /\ result[r] = "OK"
         /\ ops[r].query = 1

\* Two registrations of one event carry the same email.
TwoRegistrationsSameEmail ==
  \E id \in DOMAIN registrations : \E x, y \in registrations[id] :
    x # y /\ x.attendeeEmail = y.attendeeEmail

\* C5: a refused conditional update ends the request: it is answered
\* INSUFFICIENT_CAPACITY having read the event twice, issued one conditional
\* update and no record write; no request issues a second conditional update.
FailedCasIsTerminal ==
  \A r \in Reqs :
    /\ ops[r].update <= 1
    /\ CasFailed(r) =>
         /\ Done(r)
         /\ result[r] = "INSUFFICIENT_CAPACITY"
         /\ ops[r].get = 2
         /\ ops[r].put = 0
         /\ registrationId[r] = 0

\* A request whose conditional update was refused because another request
\* had advanced the count it read.
CasRefusedAfterAdvance ==
  \E r \in Reqs :
    /\ CasFailed(r) /\ Done(r)
    /\ events[req[r].eventId].registered > event[r].registered

\* C6: when the record write fails after the conditional update succeeded,
\* the request is answered INTERNAL_ERROR, the stored count keeps the
\* increment (no second update is issued), and no record exists for the
\* request: every stored record belongs to an accepted request.
PartialFailureNotCompensated ==
  /\ \A r \in Reqs :
       fault[r] = "put" =>
         /\ Done(r)
         /\ result[r] = "INTERNAL_ERROR"
         /\ updatedEvent[r] # Null
         /\ events[req[r].eventId].registered >= updatedEvent[r].registered
         /\ ops[r].update = 1
         /\ \A x \in RegistrationsOf(req[r].eventId) : x.id # registrationId[r]
  /\ \A id \in DOMAIN registrations : \A x \in registrations[id] :
       \E q \in Accepted : registrationId[q] = x.id /\ req[q].eventId = id

\* A record write failed and the event's count exceeds what its records
\* account for.
CapacitySpentWithoutRecord ==
  \E r \in Reqs :
    /\ fault[r] = "put" /\ Done(r)
    /\ events[req[r].eventId].registered - seeded[req[r].eventId]
         > SumGroupSize(registrations[req[r].eventId])

(* Well-formedness of a request, stated on the body itself. *)

EmailShapeOk(v) == v.t = "string" /\ validateEmail(v.s)
NameOk(v) == v.t = "string" /\ trim(v.s) # <<>>
GroupSizeOk(v) ==
  v.t = "undefined" \/ (v.t = "number" /\ v.h >= 2 /\ v.h % 2 = 0)

\* A request with a path id and a JSON object for a body.
HasBody(r) == req[r].eventId # "" /\ req[r].body.kind = "object"

WellFormed(r) ==
  /\ HasBody(r)
  /\ EmailShapeOk(req[r].body.attendeeEmail)
  /\ NameOk(req[r].body.attendeeName)
  /\ GroupSizeOk(req[r].body.groupSize)

\* The request ran to its answer with no store failure and found its event
\* at registered = max.
AnsweredOnFullEvent(r) ==
  /\ Done(r) /\ fault[r] = "none" /\ WellFormed(r)
  /\ existingEvent[r] # Null
  /\ existingEvent[r].registered = existingEvent[r].max

\* The request changed nothing: it issued no write and the event still is
\* what the handler read.
LeftStoreAsFound(r) ==
  /\ ops[r].update = 0
  /\ ops[r].put = 0
  /\ registrationId[r] = 0
  /\ events[req[r].eventId] = existingEvent[r]

\* C7 as stated: a well-formed request for an event at registered = max is
\* answered EVENT_FULL or INSUFFICIENT_CAPACITY, whatever its email, and
\* leaves the store unchanged.
FullEventRejected ==
  \A r \in Reqs :
    AnsweredOnFullEvent(r) =>
      /\ result[r] \in {"EVENT_FULL", "INSUFFICIENT_CAPACITY"}
      /\ LeftStoreAsFound(r)

\* C7 amended: a well-formed request for an event at registered = max is
\* answered EVENT_FULL or INSUFFICIENT_CAPACITY, or DUPLICATE_REGISTRATION
\* when a registration with its email is stored for the event, and leaves
\* the store unchanged.
FullEventRejectedOrDuplicate ==
  \A r \in Reqs :
    AnsweredOnFullEvent(r) =>
      /\ \/ result[r] \in {"EVENT_FULL", "INSUFFICIENT_CAPACITY"}
         \/ result[r] = "DUPLICATE_REGISTRATION" /\ PriorRegistration(r)
      /\ LeftStoreAsFound(r)

\* A group of two is turned away with EVENT_FULL from a full event.
FullEventTurnedAway ==
  \E r \in Reqs :
    /\ AnsweredOnFullEvent(r)
    /\ GroupSize(r) = 2
    /\ result[r] = "EVENT_FULL"

\* The request ran to its answer with no store failure, is no duplicate, and
\* found its event with room, but not for its group.
AnsweredOnGroupTooLarge(r) ==
  /\ Done(r) /\ fault[r] = "none" /\ WellFormed(r)
  /\ existingEvent[r] # Null
  /\ existingEvent[r].registered < existingEvent[r].max
  /\ existingEvent[r].registered + GroupSize(r) > existingEvent[r].max
  /\ ~PriorRegistration(r)

\* C8: a well-formed, non-duplicate request run alone against an event with
\* registered < max and registered + groupSize > max is answered
\* INSUFFICIENT_CAPACITY, issues no conditional update and no record write,
\* and leaves registered as it was.
GroupTooLargeRejected ==
  \A r \in Reqs :
    AnsweredOnGroupTooLarge(r) =>
      /\ result[r] = "INSUFFICIENT_CAPACITY"
      /\ LeftStoreAsFound(r)

\* A group of two was turned away from an event with one place left.
GroupTooLargeTurnedAway ==
  \E r \in Reqs :
    /\ AnsweredOnGroupTooLarge(r)
    /\ result[r] = "INSUFFICIENT_CAPACITY"
    /\ events[req[r].eventId].registered = events[req[r].eventId].max - 1

DuplicateReported(r) ==
  \E x \in QueryEvaluated(
             { y \in RegistrationsOf(req[r].eventId) : y.id # registrationId[r] },
             DuplicateQueryLimit) :
    x.attendeeEmail = Email(r)

Matches(id, query) ==
  /\ Truthy(query.category) => catalog[id].category = query.category.s
  /\ Truthy(query.search) =>
       \/ includes(toLowerCase(catalog[id].title), toLowerCase(query.search.s))
       \/ includes(toLowerCase(catalog[id].description),
                   toLowerCase(query.search.s))
  /\ (Truthy(query.status) /\ query.status.s = Available) =>
       events[id].registered < events[id].max
  /\ (Truthy(query.status) /\ query.status.s = Full) =>
       events[id].registered >= events[id].max

Matching(query) == { id \in DOMAIN events : Matches(id, query) }

\* The ids of the events of one page.
PageIds(page) == { page.events[i].id : i \in 1..Len(page.events) }

\* The client started without a token and has followed every token it was
\* given, up to a page that carries none.
ListingComplete ==
  /\ listing.code = "OK"
  /\ ~Truthy(listing.query.lastKey)
  /\ ~Truthy(listing.pages[Len(listing.pages)].lastKey)

\* C11: pagination round trip on a fixed dataset.  When a client has
\* followed the tokens from the first page to a page without one, the pages
\* are pairwise disjoint and together hold exactly the events that match
\* the filters.
PaginationCoversMatching ==
  ListingComplete =>
    /\ \A i, j \in 1..Len(listing.pages) :
         i # j => PageIds(listing.pages[i]) \cap PageIds(listing.pages[j]) = {}
    /\ UNION { PageIds(listing.pages[i]) : i \in 1..Len(listing.pages) }
         = Matching(listing.query)

\* The events of the pages the client holds.
EventsOfPage(page) == { page.events[i] : i \in 1..Len(page.events) }
PagesHeld == { listing.pages[i] : i \in 1..Len(listing.pages) }

\* C12: filter soundness.  Every event of every page satisfies every
\* filter of the query: with a category its category id is that category,
\* with status "available" registered < max, with status "full"
\* registered >= max, with a search text its title or description holds it
\* whatever the case; so no event of an "available" page would pass the
\* "full" filter and no event of a "full" page the "available" one.
FiltersSound ==
  \A page \in PagesHeld : \A e \in EventsOfPage(page) :
    /\ Truthy(listing.query.category) => e.category = listing.query.category.s
    /\ (Truthy(listing.query.status) /\ listing.query.status.s = Available) =>
         /\ e.registered < e.max
         /\ ~Matches(e.id, [listing.query EXCEPT !.status = Str(Full)])
    /\ (Truthy(listing.query.status) /\ listing.query.status.s = Full) =>
         /\ e.registered >= e.max
         /\ ~Matches(e.id, [listing.query EXCEPT !.status = Str(Available)])
    /\ Matches(e.id, listing.query)

\* A page asked for with a category and status "available" holds an event
\* while the catalog also holds a full event of that category and an
\* available event of another.
FilteredPageListed ==
  /\ listing.code = "OK"
  /\ Truthy(listing.query.category)
  /\ Truthy(listing.query.status) /\ listing.query.status.s = Available
  /\ \E page \in PagesHeld : EventsOfPage(page) # {}
  /\ \E id \in DOMAIN events :
       /\ catalog[id].category = listing.query.category.s
       /\ events[id].registered >= events[id].max
  /\ \E id \in DOMAIN events :
       /\ catalog[id].category # listing.query.category.s
       /\ events[id].registered < events[id].max

\* C15: the total of a page is the number of events in that page, after
\* filtering and after the cut to the limit; it is not the number of events
\* that matched.
TotalCountsPage ==
  \A page \in PagesHeld :
    /\ page.total = Len(page.events)
    /\ page.total <= page.limit
    /\ page.total <= page.matched

\* A page whose total is smaller than the number of events that matched the
\* filters among those the call scanned.
TotalBelowMatched ==
  \E page \in PagesHeld :
    /\ page.total = page.limit
    /\ page.matched > page.total
    /\ Cardinality(Matching(listing.query)) > page.total

\* The latest call scanned up to the scan limit and the store reported where
\* it stopped.
ScanReportedMore(page) == page.more

\* The filtered buffer of the call held more events than the limit.
BufferBeyondLimit(page) == page.matched > page.limit

\* C16: a page carries a lastKey only if the scan reported more unretrieved
\* items or the filtered buffer held events beyond the limit; when neither
\* holds the page carries none.
TokenOnlyWhenMore ==
  \A page \in PagesHeld :
    /\ Truthy(page.lastKey) => (ScanReportedMore(page) \/ BufferBeyondLimit(page))
    /\ (~ScanReportedMore(page) /\ ~BufferBeyondLimit(page)) => page.lastKey = Undef

\* One listing holds a page with a lastKey, handed out because the scan
\* stopped at its limit, and a later page without one.
TokenThenNone ==
  /\ Len(listing.pages) >= 2
  /\ Truthy(listing.pages[1].lastKey) /\ ScanReportedMore(listing.pages[1])
  /\ listing.pages[Len(listing.pages)].lastKey = Undef
  /\ ~ScanReportedMore(listing.pages[Len(listing.pages)])

\* The limit the handler parsed from the query of the listing.
LimitAsked == LimitOf(listing.query.limit)

PageCutToLimit ==
  /\ listing.code = "OK"
  /\ listing.query.limit = Str(<<"1">>)
  /\ Len(listing.pages[1].events) = 1
  /\ listing.pages[1].matched > 1

(* ------------------- claims: rejections and protocol ------------------ *)

\* The step answers request r with this code.
Answers(r, code) == pc[r] # "done" /\ pc'[r] = "done" /\ result'[r] = code

\* The event as stored when the step is taken; no rejecting step changes it.
Stored(r) == events[req[r].eventId]

\* The step is the conditional update of r, refused because the stored
\* count is no longer the one r read.
CasRefusedNow(r) ==
  /\ pc[r] = "update"
  /\ fault'[r] = "none"
  /\ Stored(r).registered # event[r].registered

PassesDuplicateCheckNow(r) ==
  /\ pc[r] = "checkDuplicate" /\ pc'[r] # "checkDuplicate"
  /\ fault'[r] = "none"
  /\ result'[r] # "DUPLICATE_REGISTRATION"

\* C18 as stated: a request that passes the duplicate check is answered
\* EVENT_FULL exactly when the event is at its maximum; it is answered
\* INSUFFICIENT_CAPACITY only when the stored event has registered < max and
\* registered + groupSize > max; and under every interleaving a request
\* rejected for capacity while the stored event is at its maximum is
\* answered EVENT_FULL.
FullVersusInsufficientAsStated ==
  [][\A r \in Reqs :
       /\ PassesDuplicateCheckNow(r) =>
            (result'[r] = "EVENT_FULL" <=> Stored(r).registered >= Stored(r).max)
       /\ Answers(r, "INSUFFICIENT_CAPACITY") =>
            /\ Stored(r).registered < Stored(r).max
            /\ Stored(r).registered + GroupSize(r) > Stored(r).max
       /\ ( /\ Answers(r, "EVENT_FULL") \/ Answers(r, "INSUFFICIENT_CAPACITY")
            /\ Stored(r).registered >= Stored(r).max )
          => result'[r] = "EVENT_FULL"]_vars

\* C18 amended: a request that passes the duplicate check is answered
\* EVENT_FULL exactly when the event was at its maximum when the handler
\* read it, and then it still is; a request is answered
\* INSUFFICIENT_CAPACITY only when the handler read registered < max and
\* either the service then read registered + groupSize > max or the
\* conditional update was refused; so a request rejected while the stored
\* event is at its maximum is answered EVENT_FULL if the handler already
\* read it full and INSUFFICIENT_CAPACITY if the event filled up afterwards.
FullVersusInsufficient ==
  [][\A r \in Reqs :
       /\ PassesDuplicateCheckNow(r) =>
            ( result'[r] = "EVENT_FULL"
                <=> existingEvent[r].registered >= existingEvent[r].max )
       /\ Answers(r, "EVENT_FULL") =>
            /\ pc[r] = "checkDuplicate"
            /\ Stored(r).registered >= Stored(r).max
       /\ Answers(r, "INSUFFICIENT_CAPACITY") =>
            /\ existingEvent[r].registered < existingEvent[r].max
            /\ \/ /\ pc[r] = "svcGetEvent"
                  /\ Stored(r).registered + GroupSize(r) > Stored(r).max
               \/ CasRefusedNow(r)]_vars

\* A request whose handler read the event with room was answered
\* INSUFFICIENT_CAPACITY by the service, which read the event at its maximum:
\* another request had filled it in between.
InsufficientOnFullEvent ==
  \E r \in Reqs :
    /\ Done(r) /\ fault[r] = "none"
    /\ result[r] = "INSUFFICIENT_CAPACITY"
    /\ existingEvent[r].registered < existingEvent[r].max
    /\ event[r].registered = event[r].max
    /\ GroupSize(r) = 1

\* The store operations a request has issued when it is at each point of
\* the protocol: Validating (no operation), DuplicateChecking (event read,
\* duplicate query), CapacityReserving (second read, conditional update),
\* RegistrationRecording (record write).
OpsAt(r) ==
  CASE pc[r] \in {"idle", "getEvent"} -> NoOps
    [] pc[r] = "checkDuplicate" -> [get |-> 1, query |-> 0, update |-> 0, put |-> 0]
    [] pc[r] = "svcGetEvent" -> [get |-> 1, query |-> 1, update |-> 0, put |-> 0]
    [] pc[r] = "update" -> [get |-> 2, query |-> 1, update |-> 0, put |-> 0]
    [] pc[r] = "put" -> [get |-> 2, query |-> 1, update |-> 1, put |-> 0]
    [] pc[r] = "done" -> ops[r]

\* C19: protocol order of one attempt.  A request issues its store
\* operations in the order event read, duplicate query, second read,
\* conditional update, record write, each at most once and none before the
\* one before it; it issues the conditional update only after its duplicate
\* query answered "no duplicate", the record write only after its own
\* conditional update succeeded, and is answered with success only after
\* its record write succeeded; and every stored record was written by a
\* request whose conditional update succeeded.
ProtocolOrder ==
  /\ \A r \in Reqs :
       /\ ops[r] = OpsAt(r)
       /\ ops[r].put <= ops[r].update /\ ops[r].update <= ops[r].query
       /\ ops[r].query <= ops[r].get /\ ops[r].get <= 2 * ops[r].query + 1
       /\ ops[r].query <= 1
       /\ ops[r].get = 2 =>
            /\ fault[r] \notin {"getEvent", "checkDuplicate"}
            /\ result[r] \notin {"DUPLICATE_REGISTRATION", "EVENT_FULL",
                                 "EVENT_NOT_FOUND"}
       /\ ops[r].update = 1 => ops[r].get = 2 /\ fault[r] # "svcGetEvent"
       /\ ops[r].put = 1 => updatedEvent[r] # Null /\ fault[r] # "update"
       /\ updatedEvent[r] # Null => ops[r].update = 1
       /\ result[r] = "OK" =>
            /\ ops[r] = [get |-> 2, query |-> 1, update |-> 1, put |-> 1]
            /\ fault[r] = "none"
            /\ \E x \in RegistrationsOf(req[r].eventId) : x.id = registrationId[r]
       /\ registrationId[r] # 0 => result[r] = "OK"
  /\ \A id \in DOMAIN registrations : \A x \in registrations[id] :
       \E r \in Reqs :
         /\ registrationId[r] = x.id /\ req[r].eventId = id
         /\ updatedEvent[r] # Null

\* One request is committed with its record stored while another, whose
\* conditional update was refused, has no record.
CommittedBesideRefused ==
  \E r, q \in Reqs :
    /\ result[r] = "OK"
    /\ \E x \in RegistrationsOf(req[r].eventId) : x.id = registrationId[r]
    /\ CasFailed(q) /\ Done(q)
    /\ registrationId[q] = 0

Rejections ==
  {"EVENT_NOT_FOUND", "INVALID_EMAIL", "INVALID_REQUEST",
   "DUPLICATE_REGISTRATION", "EVENT_FULL", "INSUFFICIENT_CAPACITY"}

\* The requests whose conditional update on this event succeeded.
Reservers(id) == { r \in Reqs : updatedEvent[r] # Null /\ req[r].eventId = id }

RECURSIVE SumGroupSizeOf(_)
SumGroupSizeOf(S) ==
  IF S = {} THEN 0
  ELSE LET r == CHOOSE q \in S : TRUE
       IN GroupSize(r) + SumGroupSizeOf(S \ {r})

\* C20: rejections are side-effect-free.  A request answered
\* EVENT_NOT_FOUND, INVALID_EMAIL, INVALID_REQUEST, DUPLICATE_REGISTRATION,
\* EVENT_FULL or INSUFFICIENT_CAPACITY has had no write accepted by the
\* store: its conditional update, if it issued one, was refused, and it
\* issued no record write.  The store holds the changes of the other
\* requests only: each event keeps its max, its registered count is the
\* seeded one plus the group sizes of the requests whose conditional update
\* succeeded, and every record was written by an accepted request.
RejectionsChangeNothing ==
  /\ \A r \in Reqs :
       result[r] \in Rejections =>
         /\ updatedEvent[r] = Null
         /\ registrationId[r] = 0
         /\ ops[r].put = 0
         /\ ops[r].update = 0 \/ CasFailed(r)
         /\ fault[r] = "none"
  /\ DOMAIN events = EventIds
  /\ \A id \in DOMAIN events :
       /\ events[id].max = MaxCap
       /\ events[id].registered = seeded[id] + SumGroupSizeOf(Reservers(id))
       /\ \A x \in registrations[id] :
            \E r \in Reqs :
              /\ result[r] = "OK" /\ registrationId[r] = x.id
              /\ x = [id |-> x.id, attendeeEmail |-> Email(r),
                      attendeeName |-> req[r].body.attendeeName.s,
                      groupSize |-> GroupSize(r)]

\* A request whose conditional update was refused has been answered
\* INSUFFICIENT_CAPACITY and the event's count is the seeded one plus the
\* winner's group, which differs from the group of the refused request.
RefusedLeftNoTrace ==
  \E r, q \in Reqs :
    /\ Done(r) /\ CasFailed(r) /\ result[r] = "INSUFFICIENT_CAPACITY"
    /\ Reservers(req[r].eventId) = {q}
    /\ GroupSize(q) # GroupSize(r)
    /\ events[req[r].eventId].registered
         = seeded[req[r].eventId] + GroupSize(q)

\* C14: the stored registered count of every event never decreases.  No
\* step of a list, a fetch or a registration, whatever its outcome, lowers
\* the registered count of an event, and none removes an Event record.
RegisteredNeverLowered ==
  [][/\ DOMAIN events \subseteq DOMAIN events'
     /\ \A id \in DOMAIN events :
          /\ events'[id].registered >= events[id].registered
          /\ events'[id].max = events[id].max]_vars

\* The count of an event was raised by two requests in turn, and a fetch
\* between the two returned the count it had then.
CountRaisedAcrossReads ==
  /\ fetched.code = "OK"
  /\ seeded[fetched.eventId] < fetched.event.registered
  /\ fetched.event.registered < events[fetched.eventId].registered
  /\ Cardinality(Reservers(fetched.eventId)) = 2

(* ----------------------- claims: progress and frame -------------------- *)

\* The step is the answer of the store to the conditional update of r.
UpdateAnsweredNow(r) ==
  pc[r] = "update" /\ pc'[r] # "update" /\ fault'[r] = "none"

\* The requests, r among them, whose service read of r's event returned the
\* registered count that r read.
SameRead(r) ==
  { q \in Reqs : /\ req[q].eventId = req[r].eventId
                 /\ event[q] # Null /\ event[r] # Null
                 /\ event[q].registered = event[r].registered }

\* Those of them whose conditional update the store has applied already.
AppliedBefore(r) ==
  { q \in SameRead(r) \ {r} : ops[q].update = 1 /\ fault[q] # "update" }

\* C21: livelock-free progress.  Among the requests for one event that read
\* the same registered count R0 with room for their group and reached the
\* conditional update, the first update the store applies succeeds and
\* writes R0 + groupSize, and every later one is refused and answered
\* INSUFFICIENT_CAPACITY; once all of them are answered with no store
\* failure exactly one is accepted; and a request in flight can always take
\* its next step, whatever the other requests are doing.
FirstUpdateWins ==
  /\ [](\A r \in Reqs :
          /\ InFlight(r) => ENABLED StoreAnswers(r)
          /\ LET S == { q \in SameRead(r) : ops[q].update = 1 }
             IN (r \in S /\ \A q \in S : Done(q) /\ fault[q] = "none")
                  => Cardinality(S \cap Accepted) = 1)
  /\ [][\A r \in Reqs :
          UpdateAnsweredNow(r) =>
            /\ event[r].registered + GroupSize(r) <= event[r].max
            /\ AppliedBefore(r) = {} =>
                 /\ updatedEvent'[r] # Null
                 /\ pc'[r] = "put"
                 /\ events'[req[r].eventId].registered
                      = event[r].registered + GroupSize(r)
            /\ AppliedBefore(r) # {} =>
                 /\ updatedEvent'[r] = Null
                 /\ Answers(r, "INSUFFICIENT_CAPACITY")
                 /\ events' = events]_vars

\* Two requests with different emails read the same count of an event with
\* room for both groups; one is accepted and the other one, whose update came
\* second, is refused.
SameReadOneWinner ==
  \E r, q \in Reqs :
    /\ r # q /\ Email(r) # Email(q)
    /\ q \in SameRead(r)
    /\ result[r] = "OK" /\ fault[q] = "none"
    /\ Done(q) /\ CasFailed(q)
    /\ event[r].registered + GroupSize(r) + GroupSize(q) <= event[r].max

\* C22: registration records are write-once.  A record write never replaces
\* a stored record, also when the generated id is the id of a stored record
\* (the write then fails), and once a record is stored no later step changes
\* any of its fields or deletes it.
RecordsWriteOnce ==
  [][\A id \in DOMAIN registrations :
       /\ id \in DOMAIN registrations'
       /\ \A x \in registrations[id] : x \in registrations'[id]]_vars

\* Under ids that never coincide the same statement holds.
RecordsKept ==
  [][\A id \in DOMAIN registrations :
       /\ id \in DOMAIN registrations'
       /\ registrations[id] \subseteq registrations'[id]]_vars

\* The attempt r was answered INTERNAL_ERROR after its record write timed
\* out, and the record is stored.
PutTimedOutCommitted(r) ==
  /\ Done(r) /\ fault[r] = "timeout" /\ ops[r].put = 1
  /\ result[r] = "INTERNAL_ERROR"
  /\ \E x \in RegistrationsOf(req[r].eventId) :
       x.id = registrationId[r] /\ x.attendeeEmail = Email(r)

\* C23: retry after timeout.  With attempts sent one after another, an
\* attempt whose write timed out is answered INTERNAL_ERROR whether the store
\* applied the write or not, and a timed-out record write leaves its record
\* stored; a later attempt with the same email carries an id of its own and
\* is stopped only by the duplicate query, so two records of one event carry
\* one email exactly where that query does not evaluate the earlier one:
\* a record of another attendee sorts before it.
RetryAfterTimeout ==
  /\ \A r \in Reqs :
       fault[r] = "timeout" =>
         /\ Done(r) /\ result[r] = "INTERNAL_ERROR"
         /\ ops[r].update = 1
         /\ ops[r].put = 0 => (updatedEvent[r] = Null /\ registrationId[r] = 0)
         /\ ops[r].put = 1 =>
              \E x \in RegistrationsOf(req[r].eventId) : x.id = registrationId[r]
  /\ \A id \in DOMAIN registrations : \A x, y \in registrations[id] :
       (x # y /\ x.attendeeEmail = y.attendeeEmail) =>
         /\ x.id # y.id
         /\ \E z \in registrations[id] :
              /\ z.attendeeEmail # x.attendeeEmail
              /\ z.id < x.id \/ z.id < y.id

\* The record write of an attempt timed out after the store applied it, the
\* caller sent the same registration again, the retry was accepted under a
\* fresh id, and the event holds two records with that email.
DuplicateAfterRetry ==
  \E r, q \in Reqs :
    /\ r # q /\ req[q] = req[r]
    /\ PutTimedOutCommitted(r)
    /\ result[q] = "OK" /\ alone[q]
    /\ registrationId[q] # registrationId[r]
    /\ \E x, y \in RegistrationsOf(req[r].eventId) :
         /\ x.id = registrationId[r] /\ y.id = registrationId[q]
         /\ x.attendeeEmail = y.attendeeEmail

\* The store operations a request has issued when the one it failed at is
\* the last: the operations before it once each, the failed one once.
OpsUpTo(op) ==
  CASE op = "getEvent" -> [get |-> 1, query |-> 0, update |-> 0, put |-> 0]
    [] op = "checkDuplicate" -> [get |-> 1, query |-> 1, update |-> 0, put |-> 0]
    [] op = "svcGetEvent" -> [get |-> 2, query |-> 1, update |-> 0, put |-> 0]
    [] op = "update" -> [get |-> 2, query |-> 1, update |-> 1, put |-> 0]
    [] op = "put" -> [get |-> 2, query |-> 1, update |-> 1, put |-> 1]

\* C24: infrastructure errors.  A register request one of whose store
\* operations failed or timed out is answered INTERNAL_ERROR, has issued the
\* operations up to the failed one once each and takes no further step; a
\* list request whose scan failed and a fetch request whose read failed are
\* answered INTERNAL_ERROR, the failed call adds no page, and nothing
\* follows it.
InfrastructureErrorsEnd ==
  /\ [](\A r \in Reqs :
          fault[r] # "none" =>
            /\ Done(r) /\ result[r] = "INTERNAL_ERROR"
            /\ IF fault[r] = "timeout"
                 THEN ops[r] \in {OpsUpTo("update"), OpsUpTo("put")}
                 ELSE ops[r] = OpsUpTo(fault[r]))
  /\ [][/\ \A r \in Reqs :
            fault[r] # "none" =>
              /\ pc'[r] = pc[r] /\ ops'[r] = ops[r]
              /\ result'[r] = result[r] /\ fault'[r] = fault[r]
        /\ listing.code = "INTERNAL_ERROR" => listing' = listing
        /\ listing'.code = "INTERNAL_ERROR" => listing'.pages = listing.pages
        /\ fetched.code = "INTERNAL_ERROR" => fetched' = fetched]_vars

\* A registration ended with INTERNAL_ERROR at its conditional update, which
\* failed without effect, and the listing of the client ended with
\* INTERNAL_ERROR on its second page.
FailedUpdateAndFailedPage ==
  /\ \E r \in Reqs :
       /\ fault[r] = "update" /\ result[r] = "INTERNAL_ERROR"
       /\ events[req[r].eventId].registered = event[r].registered
  /\ listing.code = "INTERNAL_ERROR"
  /\ Len(listing.pages) = 1

\* A fetch ended with INTERNAL_ERROR.
FailedFetch == fetched.code = "INTERNAL_ERROR" /\ fetched.event = Null

\* Two emails that differ, and only in the case of their letters.
DiffersInCaseOnly(a, b) == a # b /\ toLowerCase(a) = toLowerCase(b)

\* A stored registration of r's event, not r's own, carries r's email in
\* another letter case, and none carries it exactly.
PriorInOtherCaseOnly(r) ==
  /\ \E x \in RegistrationsOf(req[r].eventId) :
       x.id # registrationId[r] /\ DiffersInCaseOnly(x.attendeeEmail, Email(r))
  /\ ~PriorRegistration(r)

\* C25: duplicate detection compares emails exactly.  With requests running
\* one after another, a well-formed request whose email differs only in
\* letter case from the email of a stored registration of its event, and
\* equals none, is not answered DUPLICATE_REGISTRATION, and it is accepted
\* when the event has room for its group.
DuplicateCheckIsCaseSensitive ==
  \A r \in Reqs :
    ( /\ Done(r) /\ fault[r] = "none" /\ WellFormed(r)
      /\ req[r].eventId \in DOMAIN events
      /\ PriorInOtherCaseOnly(r) )
    => /\ result[r] # "DUPLICATE_REGISTRATION"
       /\ existingEvent[r].registered + GroupSize(r) <= existingEvent[r].max
            => result[r] = "OK"

\* A@b.c was accepted for an event that holds a registration of a@b.c: both
\* records are stored.
SameEmailOtherCaseAccepted ==
  \E r \in Reqs :
    /\ result[r] = "OK" /\ Email(r) = EmailUpperA
    /\ \E x, y \in RegistrationsOf(req[r].eventId) :
         /\ x.attendeeEmail = EmailA
         /\ y.attendeeEmail = EmailUpperA /\ y.id = registrationId[r]
         /\ x.id < y.id

\* The step belongs to request r.
StepOf(r) == pc'[r] # pc[r] \/ ops'[r] # ops[r]

\* C26: capacity.registered is the only mutable shared field.  No step
\* adds or removes an event or changes the max, category, title or
\* description of one; a step of a registration request changes neither the
\* Event record nor the Registration records of any event but its own; and a
\* step of a list or a fetch request changes nothing in the store.
OnlyRegisteredChanges ==
  [][/\ DOMAIN events' = DOMAIN events
     /\ DOMAIN registrations' = DOMAIN registrations
     /\ catalog' = catalog
     /\ \A id \in DOMAIN events : events'[id].max = events[id].max
     /\ \A r \in Reqs :
          StepOf(r) =>
            \A id \in DOMAIN events \ {req'[r].eventId} :
              /\ events'[id] = events[id]
              /\ registrations'[id] = registrations[id]
     /\ (listing' # listing \/ fetched' # fetched) =>
          /\ events' = events
          /\ registrations' = registrations]_vars

\* Both events hold a registration and a raised count, each still has its
\* own max and attributes, and a listing taken in between shows that.
BothEventsRegistered ==
  /\ \A id \in DOMAIN events :
       /\ events[id].registered > seeded[id]
       /\ registrations[id] # {}
  /\ \E a, b \in DOMAIN events :
       /\ events[a].max # events[b].max
       /\ catalog[a] # catalog[b]
       /\ events[a].registered # events[b].registered
  /\ listing.code = "OK"
  /\ \E i \in 1..Len(listing.pages[1].events) :
       listing.pages[1].events[i].registered
         < events[listing.pages[1].events[i].id].registered

\* The group size the request asks for: 1 when its body gives none.
GroupAsked(r) ==
  IF req[r].body.groupSize.t = "undefined" THEN 1
  ELSE req[r].body.groupSize.h \div 2

\* The step is the conditional update of r and the store applies it.
UpdateAppliedNow(r) == pc[r] = "update" /\ pc'[r] = "put"

\* C27: exact increment.  The stored registered count of an event changes
\* only in the step of one request's conditional update, which raises it by
\* exactly the group size asked (1 when the body gives none), is applied
\* only while the stored count is the count R0 that this request read and
\* found to leave room for its group, and therefore writes a value <= max;
\* and every accepted request has made exactly one such update.
ExactIncrement ==
  /\ [](\A r \in Reqs :
          result[r] = "OK" =>
            /\ ops[r].update = 1
            /\ updatedEvent[r].registered = event[r].registered + GroupAsked(r)
            /\ updatedEvent[r].registered <= updatedEvent[r].max)
  /\ [][\A id \in DOMAIN events :
          /\ \A r \in Reqs :
               (UpdateAppliedNow(r) /\ req[r].eventId = id) =>
                 /\ events[id].registered = event[r].registered
                 /\ event[r].registered + GroupAsked(r) <= event[r].max
                 /\ events'[id].registered = events[id].registered + GroupAsked(r)
                 /\ events'[id].registered <= events'[id].max
                 /\ ops[r].update = 0 /\ ops'[r].update = 1
          /\ events'[id].registered # events[id].registered =>
               \E r \in Reqs :
                 /\ UpdateAppliedNow(r) /\ req[r].eventId = id
                 /\ \A q \in Reqs \ {r} : pc'[q] = pc[q]]_vars

\* A request that gave no group size was accepted after another one: the
\* count it read was already raised, and it raised it by one.
DefaultGroupAccepted ==
  \E r \in Reqs :
    /\ result[r] = "OK"
    /\ req[r].body.groupSize = Undef
    /\ event[r].registered > seeded[req[r].eventId]
    /\ events[req[r].eventId].registered = event[r].registered + 1

Outcomes == Rejections \cup {"OK", "INTERNAL_ERROR"}

\* C28: termination.  Under a store that answers every operation, every
\* request that has arrived is answered, whatever the other requests do; at
\* every moment it has issued at most two event reads, one duplicate query,
\* one conditional update and one record write, its position only moves
\* forward through the protocol, and once answered it carries one outcome,
\* which no later step changes.
EveryRequestTerminates ==
  /\ \A r \in Reqs : (InFlight(r) ~> Done(r))
  /\ [](\A r \in Reqs :
          /\ ops[r].get <= 2 /\ ops[r].query <= 1
          /\ ops[r].update <= 1 /\ ops[r].put <= 1
          /\ Done(r) <=> result[r] \in Outcomes
          /\ ~Done(r) => result[r] = "none")
  /\ [][\A r \in Reqs :
          /\ Done(r) => (pc'[r] = "done" /\ result'[r] = result[r])
          /\ pc'[r] # pc[r] =>
               <<pc[r], pc'[r]>> \in
                 { <<"idle", "getEvent">>, <<"getEvent", "checkDuplicate">>,
                   <<"checkDuplicate", "svcGetEvent">>,
                   <<"svcGetEvent", "update">>, <<"update", "put">> }
                 \cup { <<p, "done">> :
                          p \in {"idle", "getEvent", "checkDuplicate",
                                 "svcGetEvent", "update", "put"} }]_vars

\* Two requests that overlapped are both answered, one of them after a
\* refused conditional update and the other one after five store operations.
BothAnsweredAfterContention ==
  /\ \A r \in Reqs : Done(r) /\ ~alone[r]
  /\ \E r \in Reqs : CasFailed(r) /\ ops[r] = OpsUpTo("update")
  /\ \E r \in Reqs : result[r] = "OK" /\ ops[r] = OpsUpTo("put")

\* C29: a single page never holds the same event twice, whatever the
\* filters, the limit and the continuation token: the events of a page have
\* pairwise different ids.
NoEventTwiceInPage ==
  \A page \in PagesHeld :
    \A i, j \in 1..Len(page.events) :
      i # j => page.events[i].id # page.events[j].id

\* A page reached through a continuation token holds an event, after a
\* first page of two events cut from a scan that also evaluated the
\* registration records of those events.
SecondPageAfterFullFirst ==
  /\ Len(listing.pages) = 2
  /\ Len(listing.pages[1].events) = 2
  /\ Len(listing.pages[2].events) >= 1
  /\ \E i \in 1..2 : registrations[listing.pages[1].events[i].id] # {}

\* ---------------------------------------------------------------------
\* claims: accounting of places against records

\* The places an event has handed out since it was seeded, and the places
\* its stored records account for.
Spent(id) == events[id].registered - seeded[id]
Recorded(id) == SumGroupSize(registrations[id])

\* r is between its accepted conditional update and its record write.
BetweenUpdateAndPut(r) == pc[r] = "put"

\* r's record write failed after its conditional update was accepted.
PutFailed(r) == fault[r] = "put"

\* r's conditional update timed out: the store may have applied it, and
\* the request was answered without a record write.
UpdateTimedOut(r) == fault[r] = "timeout" /\ ops[r].put = 0

\* No request of the event is on the partial-failure path.
NoPartialFailure(id) ==
  \A r \in Reqs :
    (req[r] # Null /\ req[r].eventId = id)
      => (~BetweenUpdateAndPut(r) /\ ~PutFailed(r))

\* No two record writes drew the same registration id.
IdsDistinct ==
  \A r, q \in Reqs :
    (r # q /\ registrationId[r] # 0) => registrationId[r] # registrationId[q]

\* C30 as stated: for every event the places handed out are at least the
\* places its records account for, and the two are equal whenever no
\* request is between its accepted conditional update and its record write
\* and no record write has failed.
CapacityAccountedAsStated ==
  \A id \in EventIds :
    /\ Spent(id) >= Recorded(id)
    /\ NoPartialFailure(id) => Spent(id) = Recorded(id)

\* C30 amended: for every event the places handed out are at least the
\* places its records account for; they are equal whenever no request is
\* between its accepted conditional update and its record write, no record
\* write has failed, no conditional update has timed out, and no two
\* record writes drew the same id.
CapacityAccounted ==
  \A id \in EventIds :
    /\ Spent(id) >= Recorded(id)
    /\ ( /\ NoPartialFailure(id)
         /\ \A r \in Reqs :
              (req[r] # Null /\ req[r].eventId = id) => ~UpdateTimedOut(r)
         /\ IdsDistinct )
       => Spent(id) = Recorded(id)

\* C30 witness: every request is answered, one was accepted and its record
\* is stored, another's conditional update timed out after the store
\* applied it, no record write failed, and the event has handed out more
\* places than its records account for.
ShortfallAfterTimedOutUpdate ==
  /\ \A r \in Reqs : Done(r)
  /\ \E r \in Reqs : result[r] = "OK" /\ registrationId[r] # 0
  /\ \E r \in Reqs :
       /\ UpdateTimedOut(r)
       /\ NoPartialFailure(req[r].eventId)
       /\ IdsDistinct
       /\ Spent(req[r].eventId) > Recorded(req[r].eventId)

\* ---------------------------------------------------------------------
\* claims: the guard of the conditional update

\* r has read the registered count R0 in the service and its conditional
\* update has not reached the store yet.
AwaitingUpdate(r) == pc[r] = "update"

\* The step is the one in which the store evaluates r's conditional update
\* (it answers, or it times out after evaluating it).
UpdateEvaluatedNow(r) ==
  pc[r] = "update" /\ pc'[r] # "update" /\ fault'[r] # "update"

\* The step is r's conditional update and the store applies it.
GuardPassedNow(r) ==
  /\ UpdateEvaluatedNow(r)
  /\ \/ pc'[r] = "put"
     \/ /\ fault'[r] = "timeout"
        /\ events'[req[r].eventId] # events[req[r].eventId]

\* C31: no ABA on the guard.  The count a request reads in the service is
\* the stored count; while the request waits for its conditional update the
\* stored count never decreases, leaves the count R0 it read only in a step
\* that applies a conditional update, is moved off R0 by every other
\* request's applied update on the same event, and once off R0 never
\* returns to it; and the request's own update is applied if and only if
\* the stored count is still R0, that is, if and only if no other request's
\* update on the event was applied since the read.
NoAbaOnGuard ==
  /\ [](\A r \in Reqs :
          AwaitingUpdate(r) =>
            /\ GroupSizeOf(req[r].body) >= 1
            /\ events[req[r].eventId].registered >= event[r].registered)
  /\ [][\A r \in Reqs :
          LET id == req[r].eventId
              R0 == event[r].registered
          IN /\ (pc[r] = "svcGetEvent" /\ pc'[r] = "update")
                  => event'[r].registered = events'[id].registered
             /\ AwaitingUpdate(r) =>
                  /\ events'[id].registered >= events[id].registered
                  /\ \A q \in Reqs \ {r} :
                       (GuardPassedNow(q) /\ req[q].eventId = id)
                         => /\ events'[id].registered > events[id].registered
                            /\ events'[id].registered # R0
                  /\ events[id].registered # R0
                       => events'[id].registered # R0
                  /\ (events[id].registered = R0
                        /\ events'[id].registered # R0)
                       => \E q \in Reqs :
                            GuardPassedNow(q) /\ req[q].eventId = id
                  /\ UpdateEvaluatedNow(r)
                       => (GuardPassedNow(r) <=> events[id].registered = R0)
                  /\ (UpdateEvaluatedNow(r) /\ fault'[r] = "none")
                       => (events[id].registered # R0
                             <=> result'[r] = "INSUFFICIENT_CAPACITY")]_vars

\* C31 witness: two requests for the same event read the same count; the
\* update of one was applied and the stored count stands at what it wrote,
\* above the count read; the other's update reached the store afterwards
\* and was refused.
RefusedAfterGuardAdvanced ==
  \E r, q \in Reqs :
    /\ r # q /\ req[r].eventId = req[q].eventId
    /\ updatedEvent[q] # Null
    /\ event[q].registered = event[r].registered
    /\ events[req[r].eventId].registered = updatedEvent[q].registered
    /\ events[req[r].eventId].registered > event[r].registered
    /\ Done(r) /\ CasFailed(r) /\ fault[r] = "none"
    /\ result[r] = "INSUFFICIENT_CAPACITY"

\* ---------------------------------------------------------------------
\* claims: soundness of the rejections

\* A record of r's event carrying exactly the email r sent is stored.
EmailStored(r) ==
  \E g \in registrations[req[r].eventId] :
    g.attendeeEmail = req[r].body.attendeeEmail.s

\* The stored event of r is full.
StoredFull(r) ==
  events[req[r].eventId].registered >= events[req[r].eventId].max

\* C32: rejection soundness.  From the moment a request is answered
\* EVENT_FULL the stored event has registered >= max, and from the moment a
\* request is answered DUPLICATE_REGISTRATION a Registration record of the
\* same event with the same email is stored, in that state and in every
\* later one.
RejectionsSound ==
  \A r \in Reqs :
    /\ result[r] = "EVENT_FULL" => StoredFull(r)
    /\ result[r] = "DUPLICATE_REGISTRATION" => EmailStored(r)

\* The half of C32 that the code keeps: an event answered as full is full
\* at that moment and stays full.
FullRejectionSound ==
  \A r \in Reqs : result[r] = "EVENT_FULL" => StoredFull(r)

\* The half of C32 at the moment of the answer alone: the step that answers
\* DUPLICATE_REGISTRATION leaves a record with the same email stored.
DuplicateRejectionSoundWhenAnswered ==
  [][\A r \in Reqs :
       (result[r] = "none" /\ result'[r] = "DUPLICATE_REGISTRATION")
         => \E g \in registrations'[req'[r].eventId] :
              g.attendeeEmail = req'[r].body.attendeeEmail.s]_vars

\* A request was answered DUPLICATE_REGISTRATION and the record it collided
\* with has since been replaced by the record of another attendee.
DuplicateAnsweredRecordGone ==
  \E r, q \in Reqs :
    /\ result[r] = "DUPLICATE_REGISTRATION" /\ ~EmailStored(r)
    /\ result[q] = "OK" /\ registrationId[q] = PriorRecord.id

====
